---- MODULE Spec2Model ----
(***************************************************************************)
(* A model of sysmon-json: the Value tree, the markup writer               *)
(* (converter/json.rs), the markup reader (converter/xml.rs) and the merge *)
(* engine (merger/mod.rs).                                                 *)
(*                                                                         *)
(* Strings are sequences of symbols.  A symbol stands for one character    *)
(* ("@", "$", " ", "&") or for a run of characters none of which is        *)
(* special to the code ("RuleGroup", "A.exe").  So "@name" is              *)
(* <<"@", "name">> and key.starts_with('@') is a test of the first symbol. *)
(* Option<T> is a sequence of length at most one: None is <<>>, Some(x)    *)
(* is <<x>>.  A map is a function whose domain is its key set.             *)
(***************************************************************************)
EXTENDS Integers, Sequences, FiniteSets, TLC

VARIABLES
    \* ---- transcoder round trip (value_to_xml; xml_to_value)
    cpc,        \* position of the round trip: "input", "written", "read"
    cin,        \* the Value handed to value_to_xml
    corder,     \* iteration order of serde_json::Map, as a sequence of keys
    cxml,       \* the events the reader gets from the written markup
    cout,       \* the result of xml_to_value: [err, val]
    \* ---- merge run (merge_configs / merge_configs_with_progress)
    mpc,        \* position of the run: "walk", "build", "write", "done"
    variant,    \* "merge_configs" or "merge_configs_with_progress"
    outExt,     \* Option: extension of the output path
    merger,     \* the ConfigMerger
    progress,   \* ProgressReporter.processed
    merged,     \* Option: the Value build_merged_config returned
    result,     \* Option: what the run returned ("Ok" or an error variant)
    written,    \* Option: what was written to the output path
    oracle,     \* Option: the collaborator's verdict on the merged markup
    hist,       \* history of the run, for stating the claims
    \* ---- path normalisation (normalize_path)
    ppc,        \* "input", "done", "again"
    pin,        \* the string handed to normalize_path
    pout,       \* the string of its Ok(..)
    pagain,     \* the string of a second call, on pout
    \* ---- file conversion (convert_file, convert_folder)
    dpc,        \* "call" (convert_file), "open", "walk" (convert_folder), "done"
    ddir,       \* what convert_folder finds at its paths
    dout,       \* Option: extension of the output path of a convert_file call
    dlog,       \* the conversion attempts: [file, run], in order
    dresult,    \* Option: what the call returned
    dmsg,       \* the entries of the BatchConversionError message
    \* ---- batch processing (BatchProcessor)
    bpc,        \* "open", "run", "done"
    bvariant,   \* "process_directory" or "process_directory_with_progress"
    boptions,   \* the ProcessingOptions the code reads
    bfiles,     \* the files the walk collected
    bstage,     \* per file: "todo", "ran", "counted", "done"
    bruns,      \* per file: the run of process_single_file
    counts,     \* processed_count and error_count
    bprogress,  \* ProgressReporter.processed
    bstats,     \* Option: the BatchProcessingStats returned
    bcalls      \* the calls made on the instance so far: what each did and returned

codecVars == <<cpc, cin, corder, cxml, cout>>
mergeVars == <<mpc, variant, outExt, merger, progress, merged, result, written, oracle, hist>>
pathVars == <<ppc, pin, pout, pagain>>
convVars == <<dpc, ddir, dout, dlog, dresult, dmsg>>
batchVars == <<bpc, bvariant, boptions, bfiles, bstage, bruns, counts, bprogress, bstats,
               bcalls>>
vars == <<codecVars, mergeVars, pathVars, convVars, batchVars>>

(***************************************************************************)
(* Bounds                                                                  *)
(***************************************************************************)
\* Largest number of nodes of a generated Value tree.
MaxNodes == 3
\* Largest number of directory entries a merge run walks.
MaxFiles == 2
\* Longest string handed to normalize_path.
MaxPathLen == 4
\* Largest number of files a batch run collects.
MaxBatch == 2
\* Largest number of calls made on one BatchProcessor.
MaxCalls == 2

(***************************************************************************)
(* Strings, options, maps                                                  *)
(***************************************************************************)
None == <<>>
Some(x) == <<x>>

EmptyMap == [k \in {} |-> k]
Put(m, k, v) == [y \in (DOMAIN m) \cup {k} |-> IF y = k THEN v ELSE m[y]]
\* Map::extend / repeated insert: entries of n replace entries of m.
Extend(m, n) == [y \in (DOMAIN m) \cup (DOMAIN n) |-> IF y \in DOMAIN n THEN n[y] ELSE m[y]]

StartsWith(s, c) == Len(s) > 0 /\ s[1] = c
\* format!("@{}", key)
AtKey(k) == <<"@">> \o k
\* &key[1..]
StripFirst(k) == Tail(k)

TextKey == <<"$", "text">>
ChildrenKey == <<"$", "children">>
RootName == <<"root">>

Whitespace == {" ", "\n"}

RECURSIVE TrimStart(_)
TrimStart(s) ==
    IF s # <<>> /\ Head(s) \in Whitespace THEN TrimStart(Tail(s)) ELSE s

RECURSIVE TrimEnd(_)
TrimEnd(s) ==
    IF s # <<>> /\ s[Len(s)] \in Whitespace
    THEN TrimEnd(SubSeq(s, 1, Len(s) - 1))
    ELSE s

\* str::trim
Trim(s) == TrimEnd(TrimStart(s))

(***************************************************************************)
(* Escaping, as quick_xml does it: BytesText::new and push_attribute       *)
(* escape what they are given, BytesText::unescape reverses it.  A symbol  *)
(* "&amp;" stands for the five characters of the entity.                   *)
(***************************************************************************)
EscapeSym(c) ==
    CASE c = "&" -> "&amp;"
      [] c = "<" -> "&lt;"
      [] OTHER -> c

Escape(s) == [i \in 1..Len(s) |-> EscapeSym(s[i])]

UnescapeSym(c) ==
    CASE c = "&amp;" -> "&"
      [] c = "&lt;" -> "<"
      [] OTHER -> c

\* A bare "&" or "<" is no text the tokenizer unescapes: unescape() fails.
Unescape(raw) ==
    [err |-> \E i \in 1..Len(raw) : raw[i] \in {"&", "<"},
     str |-> [i \in 1..Len(raw) |-> UnescapeSym(raw[i])]]

(***************************************************************************)
(* Value (model/types.rs; serde_json::Value has the same six variants)     *)
(***************************************************************************)
VNull == [tag |-> "Null"]
VBool(b) == [tag |-> "Bool", b |-> b]
VNumber(n) == [tag |-> "Number", n |-> n]
VString(s) == [tag |-> "String", str |-> s]
VArray(a) == [tag |-> "Array", items |-> a]
VObject(m) == [tag |-> "Object", map |-> m]

IsString(v) == v.tag = "String"
IsObject(v) == v.tag = "Object"
IsArray(v) == v.tag = "Array"

\* Map::get
Get(m, k) == IF k \in DOMAIN m THEN Some(m[k]) ELSE None

\* Number::to_string, for the one-digit numbers the model uses
Digits == <<"0", "1", "2", "3", "4", "5", "6", "7", "8", "9">>
NumToString(n) == <<Digits[n + 1]>>
\* bool::to_string
BoolToString(b) == IF b THEN <<"true">> ELSE <<"false">>

(***************************************************************************)
(* Markup events (quick_xml::events::Event)                                *)
(***************************************************************************)
EvStart(n, a) == [ev |-> "Start", name |-> n, attrs |-> a]
EvEnd(n) == [ev |-> "End", name |-> n]
EvEmpty(n) == [ev |-> "Empty", name |-> n]
EvText(raw) == [ev |-> "Text", raw |-> raw]
EvDecl == [ev |-> "Decl"]
EvEof == [ev |-> "Eof"]

\* (key, value) as push_attribute writes it: the value escaped
Attr(k, v) == [key |-> k, value |-> Escape(v)]

\* The keys of a map in the order the map iterates them: ord lists the keys.
KeySeq(ord, S) == SelectSeq(ord, LAMBDA k : k \in S)

(***************************************************************************)
(* Tree -> markup writer: write_value (converter/json.rs).  The result is  *)
(* the sequence of events handed to the quick_xml Writer.                  *)
(***************************************************************************)
\* An attribute pass that takes numbers too, written as their digits.
WriteAttrsAnyScalar(ord, map) ==
    LET ks == SelectSeq(KeySeq(ord, DOMAIN map),
                        LAMBDA k : StartsWith(k, "@")
                                   /\ map[k].tag \in {"String", "Number"})
    IN  [i \in 1..Len(ks) |->
            Attr(StripFirst(ks[i]),
                 IF IsString(map[ks[i]]) THEN map[ks[i]].str
                 ELSE NumToString(map[ks[i]].n))]

\* The attributes pushed in the first pass over the map: each key that
\* starts with '@' and holds a String.
WriteAttrs(ord, map) ==
    LET ks == SelectSeq(KeySeq(ord, DOMAIN map),
                        LAMBDA k : StartsWith(k, "@") /\ IsString(map[k]))
    IN  [i \in 1..Len(ks) |-> Attr(StripFirst(ks[i]), map[ks[i]].str)]

\* A scalar: a named element holding the text, or the bare text.
WriteScalar(name, text) ==
    IF name # None
    THEN <<EvStart(name[1], <<>>), EvText(Escape(text)), EvEnd(name[1])>>
    ELSE <<EvText(Escape(text))>>

RECURSIVE WriteValue(_, _, _)
RECURSIVE WriteItems(_, _, _, _)
RECURSIVE WriteEntries(_, _, _, _)

WriteValue(ord, name, value) ==
    CASE value.tag = "Object" ->
            LET map == value.map
                tag_name == IF name # None THEN name[1] ELSE RootName
                text == Get(map, TextKey)
                kids == Get(map, ChildrenKey)
                regular == SelectSeq(KeySeq(ord, DOMAIN map),
                               LAMBDA k : ~StartsWith(k, "$") /\ ~StartsWith(k, "@"))
            IN  <<EvStart(tag_name, WriteAttrs(ord, map))>>
                \o (IF text # None /\ IsString(text[1])
                    THEN <<EvText(Escape(text[1].str))>> ELSE <<>>)
                \o (IF kids # None /\ IsArray(kids[1])
                    THEN WriteItems(ord, None, kids[1].items, 1) ELSE <<>>)
                \o WriteEntries(ord, map, regular, 1)
                \o <<EvEnd(tag_name)>>
      [] value.tag = "Array" -> WriteItems(ord, name, value.items, 1)
      [] value.tag = "String" -> WriteScalar(name, value.str)
      [] value.tag = "Number" -> WriteScalar(name, NumToString(value.n))
      [] value.tag = "Bool" -> WriteScalar(name, BoolToString(value.b))
      [] value.tag = "Null" ->
            IF name # None THEN <<EvEmpty(name[1])>> ELSE <<>>

\* A writer that takes a list for its first item.
WriteItemsFirst(ord, name, items, i) ==
    IF i > Len(items) THEN <<>> ELSE WriteValue(ord, name, items[i])

\* for value in arr { write_value(writer, name, value) }
WriteItems(ord, name, items, i) ==
    IF i > Len(items) THEN <<>>
    ELSE WriteValue(ord, name, items[i]) \o WriteItems(ord, name, items, i + 1)

\* for (key, value) in map.iter() { write_value(writer, Some(key), value) }
WriteEntries(ord, map, keys, i) ==
    IF i > Len(keys) THEN <<>>
    ELSE WriteValue(ord, Some(keys[i]), map[keys[i]])
         \o WriteEntries(ord, map, keys, i + 1)

(***************************************************************************)
(* The markup text and back: the Writer serialises the events, the Reader  *)
(* (Reader::from_str, text not trimmed, empty elements not expanded)       *)
(* tokenises the text.  Text written by consecutive Text events is one     *)
(* Text event on reading, and an empty text is no event.                   *)
(***************************************************************************)
RECURSIVE Tokenize(_)
Tokenize(evs) ==
    IF evs = <<>> THEN <<>>
    ELSE LET e == Head(evs)
             rest == Tokenize(Tail(evs))
         IN  IF e.ev = "Text"
             THEN IF e.raw = <<>> THEN rest
                  ELSE IF rest # <<>> /\ Head(rest).ev = "Text"
                       THEN <<EvText(e.raw \o Head(rest).raw)>> \o Tail(rest)
                       ELSE <<e>> \o rest
             ELSE <<e>> \o rest

\* value_to_xml, followed by the tokenisation of its result
ValueToXml(ord, value) == Tokenize(WriteValue(ord, None, value))

(***************************************************************************)
(* Markup -> tree reader: read_next_value (converter/xml.rs).  pos is the  *)
(* reader's position in the event sequence; past its end every read is Eof.*)
(***************************************************************************)
EventAt(evs, pos) == IF pos > Len(evs) THEN EvEof ELSE evs[pos]

\* The attributes of a start tag, as "@key" -> String(raw value): the
\* value is attr.value, which is not unescaped.
AttrMap(attrs) ==
    LET keys == {AtKey(attrs[i].key) : i \in 1..Len(attrs)}
        last(k) == CHOOSE i \in 1..Len(attrs) :
                      /\ AtKey(attrs[i].key) = k
                      /\ \A j \in 1..Len(attrs) : AtKey(attrs[j].key) = k => j <= i
    IN  [k \in keys |-> VString(attrs[last(k)].value)]

\* A store that keeps the text as read, untrimmed.
StoreTextUntrimmed(obj, text_content) ==
    IF text_content # <<>>
    THEN Put(obj, TextKey, VString(text_content))
    ELSE obj

\* The text stored under "$text": the trimmed text, when it is not empty.
StoreText(obj, text_content) ==
    IF Trim(text_content) # <<>>
    THEN Put(obj, TextKey, VString(Trim(text_content)))
    ELSE obj

\* Ok(Event::End(ref e)) if e.name().as_ref() == e.name().as_ref()
EndGuard(e) == e.name = e.name

ReadErr(pos) == [err |-> TRUE, val |-> None, pos |-> pos]

RECURSIVE ReadNextValue(_, _)
RECURSIVE ReadInterior(_, _, _, _)

\* Returns [err, val, pos]: val is the Option<Value> of Ok(..).
ReadNextValue(evs, pos) ==
    LET e == EventAt(evs, pos) IN
    CASE e.ev = "Start" ->
            LET r == ReadInterior(evs, pos + 1, <<>>, EmptyMap) IN
            IF r.err THEN ReadErr(r.pos)
            ELSE LET obj == Extend(StoreText(AttrMap(e.attrs), r.text), r.children)
                 IN  [err |-> FALSE,
                      val |-> Some(VObject(Put(EmptyMap, e.name, VObject(obj)))),
                      pos |-> r.pos]
      [] e.ev = "Text" ->
            LET u == Unescape(e.raw) IN
            IF u.err THEN ReadErr(pos + 1)
            ELSE IF Trim(u.str) # <<>>
                 THEN [err |-> FALSE, val |-> Some(VString(Trim(u.str))), pos |-> pos + 1]
                 ELSE ReadNextValue(evs, pos + 1)
      [] e.ev = "Eof" -> [err |-> FALSE, val |-> None, pos |-> pos + 1]
      [] OTHER -> ReadNextValue(evs, pos + 1)

\* The inner loop: returns [err, text, children, pos].
ReadInterior(evs, pos, text_content, children) ==
    LET e == EventAt(evs, pos)
        done == [err |-> FALSE, text |-> text_content, children |-> children,
                 pos |-> pos + 1]
        fail == [err |-> TRUE, text |-> text_content, children |-> children,
                 pos |-> pos + 1]
    IN
    CASE e.ev = "Start" ->
            \* the child's start tag is consumed here; the recursive call
            \* reads on from the event after it
            LET r == ReadNextValue(evs, pos + 1) IN
            IF r.err THEN fail
            ELSE ReadInterior(evs, r.pos, text_content,
                     IF r.val # None THEN Put(children, e.name, r.val[1])
                     ELSE children)
      [] e.ev = "Text" ->
            LET u == Unescape(e.raw) IN
            IF u.err THEN fail
            ELSE ReadInterior(evs, pos + 1, text_content \o u.str, children)
      [] e.ev = "End" /\ EndGuard(e) -> done
      [] e.ev = "Eof" -> done
      [] OTHER -> ReadInterior(evs, pos + 1, text_content, children)

\* xml_to_value: [err, val]
XmlToValue(evs) ==
    LET r == ReadNextValue(evs, 1) IN
    IF r.err THEN [err |-> TRUE, val |-> VNull]
    ELSE [err |-> FALSE, val |-> IF r.val # None THEN r.val[1] ELSE VNull]

(***************************************************************************)
(* The round trip value_to_xml ; xml_to_value as a state machine.  The     *)
(* inputs: every tree of at most MaxNodes objects over two child tags and  *)
(* four decorations, and a family of edge cases (text that needs trimming  *)
(* or escaping, non-string attributes, scalars, arrays, "$children").      *)
(***************************************************************************)
KAttr == <<"@", "k">>
KC == <<"c">>
KD == <<"d">>

Decorations ==
    {EmptyMap,
     Put(EmptyMap, KAttr, VString(<<"a">>)),
     Put(EmptyMap, TextKey, VString(<<"t">>)),
     Put(Put(EmptyMap, KAttr, VString(<<"a">>)), TextKey, VString(<<"t">>))}

RECURSIVE TreesOfSize(_)
\* The objects of exactly n nodes.
TreesOfSize(n) ==
    IF n < 1 THEN {}
    ELSE IF n = 1 THEN {VObject(d) : d \in Decorations}
    ELSE LET one(k) == {Put(EmptyMap, k, x) : x \in TreesOfSize(n - 1)}
             two == UNION {{Put(Put(EmptyMap, KC, x), KD, y) :
                               x \in TreesOfSize(i), y \in TreesOfSize(n - 1 - i)} :
                           i \in 1..(n - 2)}
         IN  {VObject(Extend(d, ch)) : d \in Decorations, ch \in one(KC) \cup one(KD) \cup two}

PlainTrees == UNION {TreesOfSize(n) : n \in 1..MaxNodes}

EdgeLeaves ==
    {VObject(Put(EmptyMap, KAttr, VString(<<"&">>))),
     VObject(Put(EmptyMap, KAttr, VNumber(7))),
     VObject(Put(EmptyMap, TextKey, VString(<<" ", "t", " ">>))),
     VObject(Put(EmptyMap, TextKey, VString(<<" ">>))),
     VObject(Put(EmptyMap, TextKey, VString(<<>>))),
     VObject(Put(EmptyMap, TextKey, VString(<<"t", "&">>))),
     VObject(Put(EmptyMap, TextKey, VNumber(7))),
     VObject(Put(EmptyMap, ChildrenKey, VArray(<<VString(<<"t">>), VNull>>))),
     VObject(Put(Put(EmptyMap, TextKey, VString(<<" ">>)),
                 ChildrenKey, VArray(<<VString(<<"t", " ">>)>>)))}

Scalars ==
    {VNull, VBool(TRUE), VNumber(7), VString(<<"t">>), VString(<<" ">>),
     VString(<<" ", "t">>)}

EdgeArrays ==
    {VArray(<<>>),
     VArray(<<VObject(Put(EmptyMap, TextKey, VString(<<"t">>)))>>),
     VArray(<<VObject(Put(EmptyMap, TextKey, VString(<<"t">>))), VObject(EmptyMap)>>),
     VArray(<<VString(<<"t">>), VString(<<" ">>)>>),
     VArray(<<VArray(<<VString(<<"t">>), VString(<<"a">>)>>)>>)}

EdgeTrees ==
    EdgeLeaves \cup Scalars
    \cup {VObject(Put(EmptyMap, KC, x)) : x \in EdgeLeaves \cup Scalars \cup EdgeArrays}
    \cup {VObject(Put(Put(EmptyMap, KC, x), KD, VObject(EmptyMap))) : x \in Scalars}

Inputs == PlainTrees \cup EdgeTrees

\* The orders in which a map may iterate its keys.  Attributes are written
\* in a pass of their own, so only the order of the child tags shows.
Orders ==
    {<<KAttr, TextKey, ChildrenKey, KC, KD>>,
     <<KAttr, TextKey, ChildrenKey, KD, KC>>}

NoResult == [err |-> FALSE, val |-> VNull]

(***************************************************************************)
(* The merge engine: ConfigMerger (merger/mod.rs)                          *)
(***************************************************************************)
\* ConfigMerger::new
NewMerger ==
    [schema_version |-> None,
     current_rules |-> <<>>,
     last_processed_file |-> None,
     processed_files_count |-> 0]

NSysmon == <<"Sysmon">>
NEventFiltering == <<"EventFiltering">>
NRuleGroup == <<"RuleGroup">>
NProcessCreate == <<"ProcessCreate">>
NImage == <<"Image">>
NSchemaVersion == <<"schemaversion">>
\* unwrap_or_else(|| "4.30".into())
FallbackVersion == <<"4.30">>

\* Every order in which a HashMap may iterate the keys S.
Perms(S) ==
    {p \in [1..Cardinality(S) -> S] :
        \A i, j \in 1..Cardinality(S) : p[i] = p[j] => i = j}

\* The '@' entries of a map.
AttrsOf(obj) == [k \in {x \in DOMAIN obj : StartsWith(x, "@")} |-> obj[k]]

\* A Start handler whose capture overwrites: the last version seen wins.
XmlStartLastWins(e, st) ==
    LET captures == {i \in 1..Len(e.attrs) :
                        e.name = NSysmon /\ e.attrs[i].key = NSchemaVersion}
        first == CHOOSE i \in captures : \A j \in captures : i <= j
    IN  [st EXCEPT
            !.ver = IF captures # {}
                    THEN Some(e.attrs[first].value) ELSE st.ver,
            !.stack = Append(st.stack,
                             [name |-> e.name, attributes |-> AttrMap(e.attrs),
                              content |-> EmptyMap]),
            !.in_event_filtering = IF e.name = NEventFiltering THEN TRUE
                                   ELSE st.in_event_filtering]

\* Event::Start in process_xml_file: the attributes are collected, the
\* schema version is captured if none is, the element is pushed.
XmlStart(e, st) ==
    LET captures == {i \in 1..Len(e.attrs) :
                        e.name = NSysmon /\ e.attrs[i].key = NSchemaVersion}
        first == CHOOSE i \in captures : \A j \in captures : i <= j
    IN  [st EXCEPT
            !.ver = IF st.ver = None /\ captures # {}
                    THEN Some(e.attrs[first].value) ELSE st.ver,
            !.stack = Append(st.stack,
                             [name |-> e.name, attributes |-> AttrMap(e.attrs),
                              content |-> EmptyMap]),
            !.in_event_filtering = IF e.name = NEventFiltering THEN TRUE
                                   ELSE st.in_event_filtering]

\* Event::Text: the trimmed text replaces the "$text" of the open element.
XmlText(e, st) ==
    IF st.stack = <<>> THEN st
    ELSE LET u == Unescape(e.raw)
             n == Len(st.stack)
         IN  IF u.err THEN [st EXCEPT !.err = TRUE]
             ELSE IF Trim(u.str) # <<>>
                  THEN [st EXCEPT !.stack[n].content =
                            Put(st.stack[n].content, TextKey, VString(Trim(u.str)))]
                  ELSE st

\* A split that leaves the group's attributes behind: each record is the
\* event-type entry alone.
SplitRulesBare(rule_obj, p) ==
    [i \in 1..Len(p) |-> VObject(Put(EmptyMap, p[i], rule_obj[p[i]]))]

\* The rule records a closing RuleGroup contributes, for the order p of
\* its keys: one per key that is no attribute and is not "RuleGroup".
SplitRules(rule_obj, p) ==
    [i \in 1..Len(p) |-> VObject(Put(AttrsOf(rule_obj), p[i], rule_obj[p[i]]))]

\* Event::End: the set of states it may lead to.
XmlEnd(e, st) ==
    IF st.stack = <<>>
    THEN {[st EXCEPT !.in_event_filtering =
               IF e.name = NEventFiltering THEN FALSE ELSE st.in_event_filtering]}
    ELSE LET n == Len(st.stack)
             top == st.stack[n]
             obj == Extend(top.attributes, top.content)
             value == VObject(obj)
             rest == SubSeq(st.stack, 1, n - 1)
             split == top.name = NRuleGroup /\ st.in_event_filtering
             keys == {k \in DOMAIN obj : ~StartsWith(k, "@") /\ k # NRuleGroup}
             orders == IF split THEN Perms(keys) ELSE {<<>>}
             stack2 == IF n > 1
                       THEN [rest EXCEPT ![n - 1].content =
                                Put(rest[n - 1].content, top.name, value)]
                       ELSE rest
         IN  {[st EXCEPT
                  !.rules = st.rules \o SplitRules(obj, p),
                  !.stack = stack2,
                  !.built = st.built \cup {value},
                  !.in_event_filtering =
                      IF e.name = NEventFiltering THEN FALSE
                      ELSE st.in_event_filtering] : p \in orders}

XmlStep(e, st) ==
    CASE e.ev = "Start" -> {XmlStart(e, st)}
      [] e.ev = "Text" -> {XmlText(e, st)}
      [] e.ev = "End" -> XmlEnd(e, st)
      [] OTHER -> {st}

RECURSIVE XmlRun(_, _, _)
\* The event loop from event i on: the set of states it may end in.
XmlRun(evs, i, st) ==
    IF st.err \/ i > Len(evs) THEN {st}
    ELSE UNION {XmlRun(evs, i + 1, s2) : s2 \in XmlStep(evs[i], st)}

\* What a call on a document returns: the merger after it, the error if
\* any, whether the collaborator accepted the document (parse and
\* validate), and the objects built on the way.
Outcome(m, err, accepted, built) ==
    [merger |-> m, err |-> err, accepted |-> accepted, built |-> built]

\* ConfigMerger::process_xml_file: the outcomes it may have on file f.
ProcessXmlFile(m, f) ==
    LET m1 == [m EXCEPT !.last_processed_file = Some(f.path)] IN
    IF ~f.readable THEN {Outcome(m1, Some("Io"), FALSE, {})}
    ELSE IF ~f.parseOk THEN {Outcome(m1, Some("ValidationError"), FALSE, {})}
    ELSE IF ~f.validOk THEN {Outcome(m1, Some("ValidationError"), FALSE, {})}
    ELSE LET st0 == [stack |-> <<>>, in_event_filtering |-> FALSE,
                     rules |-> m.current_rules, ver |-> m.schema_version,
                     err |-> FALSE, built |-> {}]
             after(st) == [m1 EXCEPT !.current_rules = st.rules,
                                     !.schema_version = st.ver]
         IN  {IF st.err
              THEN Outcome(after(st), Some("XmlParse"), TRUE, st.built)
              ELSE Outcome([after(st) EXCEPT !.processed_files_count = @ + 1],
                           None, TRUE, st.built) :
              st \in XmlRun(f.xml, 1, st0)}

RECURSIVE ConvertJsonValue(_)
\* convert_json_value: serde_json::Value -> model::Value, variant by variant
ConvertJsonValue(v) ==
    CASE v.tag = "Null" -> VNull
      [] v.tag = "Bool" -> VBool(v.b)
      [] v.tag = "Number" -> VNumber(v.n)
      [] v.tag = "String" -> VString(v.str)
      [] v.tag = "Array" ->
            VArray([i \in 1..Len(v.items) |-> ConvertJsonValue(v.items[i])])
      [] v.tag = "Object" ->
            VObject([k \in DOMAIN v.map |-> ConvertJsonValue(v.map[k])])

\* serde_json::Value::get(key): None unless an object with that key
JsonGet(v, k) == IF IsObject(v) THEN Get(v.map, k) ELSE None

\* An ingestion that knows the single group only: whatever is found at
\* EventFiltering.RuleGroup is pushed as one record.
ProcessJsonValueSingle(m, json_value) ==
    IF ~IsObject(json_value) THEN Outcome(m, Some("InvalidFile"), FALSE, {})
    ELSE LET ef == Get(json_value.map, NEventFiltering)
             rule_groups == IF ef # None THEN JsonGet(ef[1], NRuleGroup) ELSE None
         IN  Outcome([m EXCEPT !.current_rules =
                          IF rule_groups = None THEN @
                          ELSE Append(@, ConvertJsonValue(rule_groups[1])),
                               !.processed_files_count = @ + 1],
                     None, FALSE, {})

\* ConfigMerger::process_json_value
ProcessJsonValue(m, json_value) ==
    IF ~IsObject(json_value) THEN Outcome(m, Some("InvalidFile"), FALSE, {})
    ELSE LET obj == json_value.map
             ver == Get(obj, AtKey(NSchemaVersion))
             version == IF m.schema_version = None /\ ver # None /\ IsString(ver[1])
                        THEN Some(ver[1].str) ELSE m.schema_version
             ef == Get(obj, NEventFiltering)
             rule_groups == IF ef # None THEN JsonGet(ef[1], NRuleGroup) ELSE None
             pushed == IF rule_groups = None THEN <<>>
                       ELSE IF IsArray(rule_groups[1])
                            THEN [i \in 1..Len(rule_groups[1].items) |->
                                     ConvertJsonValue(rule_groups[1].items[i])]
                            ELSE <<ConvertJsonValue(rule_groups[1])>>
         IN  Outcome([m EXCEPT !.schema_version = version,
                               !.current_rules = @ \o pushed,
                               !.processed_files_count = @ + 1],
                     None, FALSE, {})

RECURSIVE CollectKeyFirstOnly(_, _, _)
\* A collection that stops at the first value found.
CollectKeyFirstOnly(items, key, i) ==
    IF i > Len(items) THEN <<>>
    ELSE IF IsObject(items[i]) /\ key \in DOMAIN items[i].map
         THEN <<items[i].map[key]>>
         ELSE CollectKeyFirstOnly(items, key, i + 1)

RECURSIVE CollectKey(_, _, _)
\* for x in items { if let Object(o) = x { if let Some(y) = o.get(key) { push(y) } } }
CollectKey(items, key, i) ==
    IF i > Len(items) THEN <<>>
    ELSE (IF IsObject(items[i]) /\ key \in DOMAIN items[i].map
          THEN <<items[i].map[key]>> ELSE <<>>)
         \o CollectKey(items, key, i + 1)

\* The name and relation of the synthesised RuleGroup.
MergedGroupAttrs ==
    Put(Put(EmptyMap, <<"@", "name">>, VString(<<"MergedRules">>)),
        <<"@", "groupRelation">>, VString(<<"or">>))

\* A consolidation that keeps what it collected: every event block of
\* every rule goes into the group, the last block of a type as it came.
CombinedRuleGroupKeepAll(rules) ==
    LET objs == {i \in 1..Len(rules) : IsObject(rules[i])}
        keys == UNION {{k \in DOMAIN rules[i].map : ~StartsWith(k, "@")} : i \in objs}
        last(k) == CHOOSE i \in objs :
                      /\ k \in DOMAIN rules[i].map
                      /\ \A j \in objs : k \in DOMAIN rules[j].map => j <= i
    IN  Extend(MergedGroupAttrs, [k \in keys |-> rules[last(k)].map[k]])

\* The synthesised RuleGroup: the ProcessCreate block is added when a
\* collected rule has one.
CombinedRuleGroup(rules) ==
    LET process_creates == CollectKey(rules, NProcessCreate, 1)
        images == CollectKey(process_creates, NImage, 1)
        combined_process_create ==
            Put(Put(EmptyMap, <<"@", "onmatch">>, VString(<<"include">>)),
                NImage, VArray(images))
    IN  IF process_creates # <<>>
        THEN Put(MergedGroupAttrs, NProcessCreate, VObject(combined_process_create))
        ELSE MergedGroupAttrs

\* The root that build_merged_config synthesises.
MergedValue(m) ==
    LET version == IF m.schema_version # None THEN m.schema_version[1]
                   ELSE FallbackVersion
        root == Put(EmptyMap, AtKey(NSchemaVersion), VString(version))
    IN  IF m.current_rules # <<>>
        THEN VObject(Put(root, NEventFiltering,
                 VObject(Put(EmptyMap, NRuleGroup,
                     VObject(CombinedRuleGroup(m.current_rules))))))
        ELSE VObject(root)

RECURSIVE WriteXmlValue(_, _, _)
RECURSIVE WriteXmlItems(_, _, _, _)
RECURSIVE WriteXmlEntries(_, _, _, _)

\* write_xml_value: the events handed to the Writer for value under the
\* element name given; ord is the order in which the maps iterate.
WriteXmlValue(ord, name, value) ==
    CASE value.tag = "Object" ->
            LET obj == value.map
                text == Get(obj, TextKey)
                regular == SelectSeq(KeySeq(ord, DOMAIN obj),
                               LAMBDA k : ~StartsWith(k, "$") /\ ~StartsWith(k, "@"))
            IN  <<EvStart(name, WriteAttrs(ord, obj))>>
                \o (IF text # None /\ IsString(text[1])
                    THEN <<EvText(Escape(text[1].str))>> ELSE <<>>)
                \o WriteXmlEntries(ord, obj, regular, 1)
                \o <<EvEnd(name)>>
      [] value.tag = "Array" -> WriteXmlItems(ord, name, value.items, 1)
      [] value.tag = "String" ->
            <<EvStart(name, <<>>), EvText(Escape(value.str)), EvEnd(name)>>
      [] value.tag = "Number" ->
            <<EvStart(name, <<>>), EvText(Escape(NumToString(value.n))), EvEnd(name)>>
      [] value.tag = "Bool" ->
            <<EvStart(name, <<>>), EvText(Escape(BoolToString(value.b))), EvEnd(name)>>
      [] value.tag = "Null" -> <<EvEmpty(name)>>

\* for value in arr { write_xml_value(writer, name, value, &path) }
WriteXmlItems(ord, name, items, i) ==
    IF i > Len(items) THEN <<>>
    ELSE WriteXmlValue(ord, name, items[i]) \o WriteXmlItems(ord, name, items, i + 1)

\* for (key, value) in obj { write_xml_value(writer, key, value, &path) }
WriteXmlEntries(ord, obj, keys, i) ==
    IF i > Len(keys) THEN <<>>
    ELSE WriteXmlValue(ord, keys[i], obj[keys[i]])
         \o WriteXmlEntries(ord, obj, keys, i + 1)

\* The orders in which the maps of a merged document may iterate: only
\* the two attributes of the RuleGroup can show it.
MergeOrders ==
    {<<AtKey(NSchemaVersion), a, b, <<"@", "onmatch">>, <<"@", "condition">>,
       TextKey, NEventFiltering, NRuleGroup, NProcessCreate, NImage>> :
        <<a, b>> \in {<<<<"@", "name">>, <<"@", "groupRelation">>>>,
                      <<<<"@", "groupRelation">>, <<"@", "name">>>>}}

\* The markup written for the merged document: the declaration and the
\* Sysmon element.
MergedMarkup(ord, value) == <<EvDecl>> \o WriteXmlValue(ord, NSysmon, value)

\* A gate that parses the merged markup and skips its validation.
ParseOnlyGate(verdict) ==
    IF ~verdict.parse THEN Some("ValidationError") ELSE None

\* The gate at the end of build_merged_config: the merged markup goes
\* through the collaborator; verdict is its answer on that markup.
BuildGate(verdict) ==
    IF ~verdict.parse THEN Some("ValidationError")
    ELSE IF ~verdict.valid THEN Some("ValidationError")
    ELSE None

(***************************************************************************)
(* The documents a merge run may meet.  A markup document is the event     *)
(* sequence the tokenizer yields for it (declaration, indentation text     *)
(* included); a structured document is its serde_json::Value.  The         *)
(* collaborator is a black box: its verdict on a document (parseOk,        *)
(* validOk) is a property of the document.                                 *)
(***************************************************************************)
Elem(name, attrs, inner) == <<EvStart(name, attrs)>> \o inner \o <<EvEnd(name)>>
Indent == <<EvText(<<"\n", " ">>)>>

PathA == <<"A.exe">>
PathB == <<"B.exe">>

ImageEl(path) ==
    Elem(NImage, <<Attr(<<"condition">>, <<"is">>)>>, <<EvText(Escape(path))>>)
ProcessCreateEl(inner) ==
    Elem(NProcessCreate, <<Attr(<<"onmatch">>, <<"include">>)>>,
         Indent \o inner \o Indent)
CommandLineEl ==
    Elem(<<"CommandLine">>, <<Attr(<<"condition">>, <<"contains">>)>>,
         <<EvText(<<"-enc">>)>>)
ProcessCreateExcludeEl(inner) ==
    Elem(NProcessCreate, <<Attr(<<"onmatch">>, <<"exclude">>)>>,
         Indent \o inner \o Indent)
NetworkConnectEl ==
    Elem(<<"NetworkConnect">>, <<Attr(<<"onmatch">>, <<"exclude">>)>>,
         Elem(<<"DestinationPort">>, <<Attr(<<"condition">>, <<"is">>)>>,
              <<EvText(<<"443">>)>>))
RuleGroupEl(name, inner) ==
    Elem(NRuleGroup,
         <<Attr(<<"name">>, name), Attr(<<"groupRelation">>, <<"and">>)>>,
         Indent \o inner \o Indent)
\* ver is an Option: the schemaversion attribute of the root, if any
XmlDoc(ver, body) ==
    <<EvDecl>> \o Indent
    \o Elem(NSysmon,
            IF ver # None THEN <<Attr(NSchemaVersion, ver[1])>> ELSE <<>>,
            Indent \o body \o Indent)
EventFilteringEl(groups) ==
    Elem(NEventFiltering, <<>>, Indent \o groups \o Indent)

\* An image-path condition as a Value, in the shared encoding.
Cond(path) ==
    VObject(Put(Put(EmptyMap, <<"@", "condition">>, VString(<<"is">>)),
                TextKey, VString(path)))
JProcessCreate(image) ==
    VObject(Put(Put(EmptyMap, <<"@", "onmatch">>, VString(<<"include">>)),
                NImage, image))
JNetworkConnect ==
    VObject(Put(Put(EmptyMap, <<"@", "onmatch">>, VString(<<"exclude">>)),
                <<"DestinationPort">>,
                VObject(Put(Put(EmptyMap, <<"@", "condition">>, VString(<<"is">>)),
                            TextKey, VString(<<"443">>)))))
JRuleGroup(name, key, event) ==
    VObject(Put(Put(Put(EmptyMap, <<"@", "name">>, VString(name)),
                    <<"@", "groupRelation">>, VString(<<"and">>)),
                key, event))
\* ver and groups are Options: "@schemaversion" and EventFiltering.RuleGroup
JsonDoc(ver, groups) ==
    LET root == IF ver # None
                THEN Put(EmptyMap, AtKey(NSchemaVersion), VString(ver[1]))
                ELSE EmptyMap
    IN  VObject(IF groups # None
                THEN Put(root, NEventFiltering,
                         VObject(Put(EmptyMap, NRuleGroup, groups[1])))
                ELSE root)

V430 == <<"4.30">>
V450 == <<"4.50">>

\* A directory entry.  ver and pc say what the document carries: its
\* schema version (an Option) and whether it has a process-creation rule.
Entry(path, ext, ver, pc) ==
    [kind |-> "file", path |-> path, ext |-> ext, readable |-> TRUE,
     xml |-> <<>>, parseOk |-> TRUE, validOk |-> TRUE,
     jsonOk |-> TRUE, json |-> VNull, ver |-> ver, pc |-> pc]
XmlEntry(path, ver, pc, body) ==
    [Entry(path, Some("xml"), ver, pc) EXCEPT !.xml = XmlDoc(ver, body)]
JsonEntry(path, ver, pc, groups) ==
    [Entry(path, Some("json"), ver, pc) EXCEPT !.json = JsonDoc(ver, groups)]

GroupA == RuleGroupEl(<<"test1">>, ProcessCreateEl(ImageEl(PathA)))
GroupB == RuleGroupEl(<<"test2">>, ProcessCreateEl(ImageEl(PathB)))

XA == XmlEntry("a.xml", Some(V430), TRUE, EventFilteringEl(GroupA))
XB == XmlEntry("b.xml", Some(V450), TRUE, EventFilteringEl(GroupB))
JA == JsonEntry("a.json", Some(V430), TRUE,
          Some(JRuleGroup(<<"test1">>, NProcessCreate, JProcessCreate(Cond(PathA)))))
JB == JsonEntry("b.json", Some(V450), TRUE,
          Some(JRuleGroup(<<"test2">>, NProcessCreate, JProcessCreate(Cond(PathB)))))
\* no schema version
XNoVer == XmlEntry("nover.xml", None, TRUE, EventFilteringEl(GroupB))
\* rule groups that hold other event types only; the extension in capitals
XNet == [XmlEntry("net.XML", Some(V450), FALSE,
             EventFilteringEl(RuleGroupEl(<<"net">>, NetworkConnectEl)))
         EXCEPT !.ext = Some("XML")]
JNet == JsonEntry("net.json", Some(V450), FALSE,
            Some(JRuleGroup(<<"net">>, <<"NetworkConnect">>, JNetworkConnect)))
\* one group with two event types
XTwo == XmlEntry("two.xml", Some(V430), TRUE,
            EventFilteringEl(RuleGroupEl(<<"two">>,
                ProcessCreateEl(ImageEl(PathA)) \o Indent \o NetworkConnectEl)))
\* one ProcessCreate with two Image conditions
XImages == XmlEntry("images.xml", Some(V430), TRUE,
               EventFilteringEl(RuleGroupEl(<<"imgs">>,
                   ProcessCreateEl(ImageEl(PathA) \o Indent \o ImageEl(PathB)))))
JImages == JsonEntry("images.json", Some(V430), TRUE,
               Some(JRuleGroup(<<"imgs">>, NProcessCreate,
                       JProcessCreate(VArray(<<Cond(PathA), Cond(PathB)>>)))))
\* a ProcessCreate block with another policy and another condition entry
XExclude == XmlEntry("exclude.xml", Some(V430), TRUE,
                EventFilteringEl(RuleGroupEl(<<"excl">>,
                    ProcessCreateExcludeEl(ImageEl(PathA) \o Indent \o CommandLineEl))))
JExclude == JsonEntry("exclude.json", Some(V430), TRUE,
                Some(JRuleGroup(<<"excl">>, NProcessCreate,
                    VObject(Put(Put(Put(EmptyMap, <<"@", "onmatch">>, VString(<<"exclude">>)),
                                    NImage, Cond(PathA)),
                                <<"CommandLine">>,
                                VObject(Put(Put(EmptyMap, <<"@", "condition">>,
                                                VString(<<"contains">>)),
                                            TextKey, VString(<<"-enc">>))))))))
\* an EventFiltering inside another, closed before the RuleGroup of the
\* outer one opens
XNested == XmlEntry("nested.xml", Some(V430), TRUE,
               EventFilteringEl(Elem(NEventFiltering, <<>>, <<>>) \o Indent
                   \o RuleGroupEl(<<"nested">>, ProcessCreateEl(ImageEl(PathA)))))
\* RuleGroups before, inside and after EventFiltering
XOutside == XmlEntry("outside.xml", Some(V430), TRUE,
                RuleGroupEl(<<"before">>, ProcessCreateEl(ImageEl(PathA))) \o Indent
                \o EventFilteringEl(RuleGroupEl(<<"inside">>, ProcessCreateEl(ImageEl(PathB))))
                \o Indent \o RuleGroupEl(<<"after">>, NetworkConnectEl))
\* no EventFiltering at all
XNoRules == XmlEntry("norules.xml", Some(V450), FALSE, <<>>)
JNoRules == JsonEntry("norules.json", None, FALSE, None)
\* an array of two groups
JArray == JsonEntry("array.json", Some(V450), TRUE,
              Some(VArray(<<JRuleGroup(<<"test1">>, NProcessCreate,
                                       JProcessCreate(Cond(PathA))),
                            JRuleGroup(<<"net">>, <<"NetworkConnect">>,
                                       JNetworkConnect)>>)))
\* the structured file that XmlToJson writes for the markup of b.xml: the
\* encoding of xml_to_value's result.  Neither a schema version nor a rule
\* is at a place where process_json_value looks.
JConvB == [Entry("b.converted.json", Some("json"), None, FALSE)
           EXCEPT !.json = XmlToValue(XB.xml).val]
\* documents that fail
XUnreadable == [XA EXCEPT !.path = "locked.xml", !.readable = FALSE]
XBadParse == [XA EXCEPT !.path = "badparse.xml", !.parseOk = FALSE]
XBadValid == [XB EXCEPT !.path = "badvalid.xml", !.validOk = FALSE]
JBadSyntax == [JA EXCEPT !.path = "syntax.json", !.jsonOk = FALSE]
JNotObject == [Entry("list.json", Some("json"), None, FALSE)
               EXCEPT !.json = VArray(<<JsonDoc(Some(V450), None)>>)]
\* entries the walk passes over
Readme == Entry("readme.txt", Some("txt"), None, FALSE)
NoExt == Entry("LICENSE", None, None, FALSE)
SubDir == [Entry("sub", None, None, FALSE) EXCEPT !.kind = "dir"]

Entries ==
    {XA, XB, JA, JB, XNoVer, XNet, JNet, XTwo, XImages, JImages, XNoRules,
     JNoRules, JArray, XExclude, JExclude, XNested, XOutside, JConvB,
     XUnreadable, XBadParse, XBadValid, JBadSyntax,
     JNotObject, Readme, NoExt, SubDir}

(***************************************************************************)
(* A merge run: merge_configs (through merge_directory) and                *)
(* merge_configs_with_progress.  The directory is the environment: each    *)
(* step of the walk takes the next entry, whatever it is.                  *)
(***************************************************************************)
Variants == {"merge_configs", "merge_configs_with_progress"}
OutExts == {Some("json"), Some("xml"), Some("txt")}
\* The collaborator's possible answers on the merged markup.
Verdicts ==
    {[parse |-> FALSE, valid |-> FALSE],
     [parse |-> TRUE, valid |-> FALSE],
     [parse |-> TRUE, valid |-> TRUE]}

\* str::to_lowercase on an extension
ToLower(ext) == IF ext = "XML" THEN "xml" ELSE IF ext = "JSON" THEN "json" ELSE ext

\* One pass of the loop body.  out is the Outcome; skipped says that the
\* entry was passed over (continue); reads counts read_to_string calls.
Pass(out, skipped, reads) == [out |-> out, skipped |-> skipped, reads |-> reads]

\* The loop body of merge_directory and of merge_configs_with_progress on
\* entry f: the passes it may make.
LoopBody(m, f) ==
    LET ext == IF f.ext # None THEN Some(ToLower(f.ext[1])) ELSE None IN
    IF f.kind # "file" THEN {Pass(Outcome(m, None, FALSE, {}), TRUE, 0)}
    ELSE IF ext = Some("xml")
    THEN IF ~f.readable THEN {Pass(Outcome(m, Some("Io"), FALSE, {}), FALSE, 1)}
         ELSE IF ~f.parseOk
              THEN {Pass(Outcome(m, Some("ParserError"), FALSE, {}), FALSE, 1)}
              ELSE {Pass(o, FALSE, 2) : o \in ProcessXmlFile(m, f)}
    ELSE IF ext = Some("json")
    THEN IF ~f.readable THEN {Pass(Outcome(m, Some("Io"), FALSE, {}), FALSE, 1)}
         ELSE IF ~f.jsonOk
              THEN {Pass(Outcome(m, Some("JsonParse"), FALSE, {}), FALSE, 1)}
              ELSE {Pass(ProcessJsonValue(m, f.json), FALSE, 1)}
    ELSE {Pass(Outcome(m, None, FALSE, {}), TRUE, 0)}

\* ProgressReporter::increment: fetch_add(1)
Increment(n) == n + 1

\* A hook invoked once per attempted document, failed or not.
HookPerAttempt(var, err, skipped) ==
    var = "merge_configs_with_progress" /\ ~skipped

\* Whether the pass reaches progress.increment(): only the progress
\* variant has the hook, behind the ? of every fallible step of the branch.
HookInvoked(var, err, skipped) ==
    var = "merge_configs_with_progress" /\ err = None /\ ~skipped

\* A walk that isolates failures: it goes on whatever the pass returned.
WalkOn(err) == "walk"

\* Where the run goes after a pass: the ? operator returns the error.
AfterPass(err) == IF err # None THEN "done" ELSE "walk"

\* Whether a pass touched what the merger collects.
Contributed(m, m2) ==
    \/ m2.current_rules # m.current_rules
    \/ m2.schema_version # m.schema_version

NewHist ==
    [entries |-> <<>>, reads |-> 0, accepted |-> {}, contributed |-> {},
     failedAt |-> None, versions |-> <<>>, built |-> {},
     mergedAccepted |-> FALSE]

(***************************************************************************)
(* File conversion (lib.rs, preprocessor/path.rs, converter/).  A file is  *)
(* what the code can observe of it: its extension, whether it can be read, *)
(* what its text is (markup or structured), the collaborator's verdict on  *)
(* it and on its preprocessed text, and whether the writes succeed.        *)
(***************************************************************************)
File(name, ext, content) ==
    [kind |-> "file", name |-> name, ext |-> ext, content |-> content,
     readable |-> TRUE, parseOk |-> content = "xml", validOk |-> content = "xml",
     preOk |-> TRUE, tmpOk |-> TRUE, reParseOk |-> TRUE, reValidOk |-> TRUE,
     xmlOk |-> TRUE, writeOk |-> TRUE]

\* One run of convert_file: what it returned, whether it wrote the output
\* path, and the steps it attempted, in order.
Run(res, wrote, steps) == [res |-> res, written |-> wrote, steps |-> steps]

\* A preprocess_config that parses the input and does not validate it.
PreprocessConfigUnvalidated(f) ==
    IF f.ext = None THEN Run("PathError", FALSE, <<>>)
    ELSE IF ~f.readable THEN Run("Io", FALSE, <<"read">>)
    ELSE IF ~f.parseOk THEN Run("ParserError", FALSE, <<"read", "parse">>)
    ELSE IF ~f.preOk
    THEN Run("PathError", FALSE, <<"read", "parse", "preprocess">>)
    ELSE Run("Ok", FALSE, <<"read", "parse", "preprocess">>)

\* preprocess_config: res is "Ok" or the PreprocessError variant.
PreprocessConfig(f) ==
    IF f.ext = None THEN Run("PathError", FALSE, <<>>)
    ELSE IF ~f.readable THEN Run("Io", FALSE, <<"read">>)
    ELSE IF ~f.parseOk THEN Run("ParserError", FALSE, <<"read", "parse">>)
    ELSE IF ~f.validOk
    THEN Run("ValidationError", FALSE, <<"read", "parse", "validate">>)
    ELSE IF ~f.preOk
    THEN Run("PathError", FALSE, <<"read", "parse", "validate", "preprocess">>)
    ELSE Run("Ok", FALSE, <<"read", "parse", "validate", "preprocess">>)

\* get_converter on the temporary copy (which keeps the input's file name)
\* and the output path.
GetConverter(in_ext, out_ext) ==
    IF in_ext = None \/ out_ext = None THEN "InvalidFile"
    ELSE IF ToLower(in_ext[1]) = "xml" /\ ToLower(out_ext[1]) = "json" THEN "XmlToJson"
    ELSE IF ToLower(in_ext[1]) = "json" /\ ToLower(out_ext[1]) = "xml" THEN "JsonToXml"
    ELSE "InvalidFile"

\* XmlToJson::convert on the preprocessed text.
XmlToJsonConvert(f) ==
    IF ~f.reParseOk THEN Run("ParserError", FALSE, <<"reparse">>)
    ELSE IF ~f.reValidOk THEN Run("ValidationError", FALSE, <<"reparse", "revalidate">>)
    ELSE IF ~f.xmlOk
    THEN Run("XmlParse", FALSE, <<"reparse", "revalidate", "transcode">>)
    ELSE IF ~f.writeOk
    THEN Run("Io", FALSE, <<"reparse", "revalidate", "transcode", "write">>)
    ELSE Run("Ok", TRUE, <<"reparse", "revalidate", "transcode", "write">>)

\* JsonToXml::convert on the preprocessed text, which is markup whenever
\* the collaborator accepted the input: serde_json::from_str rejects it.
JsonToXmlConvert(f) ==
    IF f.content # "json" THEN Run("JsonParse", FALSE, <<"json_parse">>)
    ELSE IF ~f.writeOk THEN Run("Io", FALSE, <<"json_parse", "transcode", "write">>)
    ELSE Run("Ok", TRUE, <<"json_parse", "transcode", "write">>)

\* convert_file(input, output), out_ext the extension of the output path.
ConvertFile(f, out_ext) ==
    LET pre == PreprocessConfig(f) IN
    IF pre.res # "Ok" THEN Run("InvalidFile", FALSE, pre.steps)
    ELSE IF ~f.tmpOk THEN Run("Io", FALSE, pre.steps \o <<"temp">>)
    ELSE LET converter == GetConverter(f.ext, out_ext)
             steps == pre.steps \o <<"temp">>
             conv == IF converter = "XmlToJson" THEN XmlToJsonConvert(f)
                     ELSE JsonToXmlConvert(f)
         IN  IF converter = "InvalidFile" THEN Run("InvalidFile", FALSE, steps)
             ELSE Run(conv.res, conv.written, steps \o conv.steps)

GoodXml == File("good.xml", Some("xml"), "xml")
UpperXml == File("upper.XML", Some("XML"), "xml")
Unreadable == [GoodXml EXCEPT !.name = "locked.xml", !.readable = FALSE]
\* what the collaborator rejects it also rejects once preprocessed
BadParse == [GoodXml EXCEPT !.name = "badparse.xml", !.parseOk = FALSE,
                            !.validOk = FALSE, !.reParseOk = FALSE,
                            !.reValidOk = FALSE]
BadValid == [GoodXml EXCEPT !.name = "badvalid.xml", !.validOk = FALSE,
                            !.reValidOk = FALSE]
BadPre == [GoodXml EXCEPT !.name = "badattr.xml", !.preOk = FALSE]
BadTmp == [GoodXml EXCEPT !.name = "notemp.xml", !.tmpOk = FALSE]
ReBadParse == [GoodXml EXCEPT !.name = "reparse.xml", !.reParseOk = FALSE]
ReBadValid == [GoodXml EXCEPT !.name = "revalid.xml", !.reValidOk = FALSE]
BadWrite == [GoodXml EXCEPT !.name = "nowrite.xml", !.writeOk = FALSE]
\* structured text: the collaborator, a markup parser, rejects it
JsonText == File("config.json", Some("json"), "json")
\* markup text under a structured extension
XmlNamedJson == File("markup.json", Some("json"), "xml")
TxtFile == File("notes.txt", Some("txt"), "other")
BareFile == File("LICENSE", None, "other")
Folder == [File("sub", None, "other") EXCEPT !.kind = "dir"]

ConvFiles ==
    {GoodXml, UpperXml, Unreadable, BadParse, BadValid, BadPre, BadTmp,
     ReBadParse, ReBadValid, BadWrite, JsonText, XmlNamedJson, TxtFile,
     BareFile, Folder}

\* What convert_folder may find: input_dir is no directory, the output
\* directory cannot be created, the input directory cannot be listed.
DirStates == {"ok", "notdir", "mkdirfail", "listfail"}

\* The output extension convert_folder chooses.
NewExt(f) == IF ToLower(f.ext[1]) = "xml" THEN Some("json") ELSE Some("xml")

\* Whether convert_folder converts the entry rather than passing over it.
Converts(f) ==
    /\ f.kind = "file"
    /\ f.ext # None
    /\ ToLower(f.ext[1]) \in {"xml", "json"}

\* A collection that keeps the first error only.
CollectFirstError(msg, f, run) ==
    IF run.res \notin {"Ok", "Skipped"} /\ msg = <<>>
    THEN <<[path |-> f.name, err |-> run.res]>>
    ELSE msg

\* if let Err(e) = convert_file(..) { conversion_errors.push((path, e)) }
CollectError(msg, f, run) ==
    IF run.res \notin {"Ok", "Skipped"}
    THEN Append(msg, [path |-> f.name, err |-> run.res])
    ELSE msg

\* No conversion call.
ConvIdle ==
    /\ dpc = "idle"
    /\ ddir = "none"
    /\ dout = None
    /\ dlog = <<>>
    /\ dresult = None
    /\ dmsg = <<>>

(***************************************************************************)
(* Batch processing (batch/processor.rs).  A batch file adds to a file     *)
(* what process_single_file observes: its size and whether metadata() can  *)
(* tell it, whether its name matches an ignore pattern, whether the output *)
(* path exists and can be copied to a backup.                              *)
(***************************************************************************)
BatchFile(f, name, size) ==
    [file |-> f, name |-> name, size |-> size, metaOk |-> TRUE,
     ignored |-> FALSE, outExists |-> FALSE, backupOk |-> TRUE]

\* A size check that also rejects a file of exactly the ceiling.
AtCeiling(len, max_file_size) == len >= max_file_size

\* metadata.len() > options.max_file_size
TooLarge(len, max_file_size) == len > max_file_size

\* The extension process_single_file gives the output path: the test of
\* the input extension is case-sensitive.
BatchNewExt(f) == IF f.ext = Some("xml") THEN Some("json") ELSE Some("xml")

\* process_single_file(input, output_dir, options)
ProcessSingleFile(b, options) ==
    IF b.metaOk /\ TooLarge(b.size, options.max_file_size)
    THEN Run("InvalidFile", FALSE, <<"metadata">>)
    ELSE IF b.ignored THEN Run("Ok", FALSE, <<"metadata", "ignore">>)
    ELSE IF options.create_backup /\ b.outExists /\ ~b.backupOk
    THEN Run("Io", FALSE, <<"metadata", "backup">>)
    ELSE LET run == ConvertFile(b.file, BatchNewExt(b.file))
         IN  Run(run.res, run.written, <<"metadata">> \o run.steps)

\* Counters that both move when a file fails.
AfterFetchAddBoth(c, run) ==
    IF run.res = "Ok" THEN [c EXCEPT !.processed = @ + 1]
    ELSE [processed |-> c.processed + 1, errors |-> c.errors + 1]

\* The fetch_add of the match on the result: one counter moves by one.
AfterFetchAdd(c, run) ==
    IF run.res = "Ok" THEN [c EXCEPT !.processed = @ + 1]
    ELSE [c EXCEPT !.errors = @ + 1]

BatchFiles ==
    {BatchFile(GoodXml, "small.xml", 1),
     BatchFile(GoodXml, "middle.xml", 2),
     BatchFile(GoodXml, "large.xml", 3),
     [BatchFile(Unreadable, "gone.xml", 3) EXCEPT !.metaOk = FALSE],
     [BatchFile(GoodXml, "skip.xml", 1) EXCEPT !.ignored = TRUE],
     [BatchFile(GoodXml, "skiplarge.xml", 3) EXCEPT !.ignored = TRUE],
     BatchFile(BadValid, "badvalid.xml", 1),
     BatchFile(TxtFile, "notes.txt", 2),
     BatchFile(UpperXml, "upper.XML", 1),
     [BatchFile(GoodXml, "again.xml", 1) EXCEPT !.outExists = TRUE, !.backupOk = FALSE]}

\* The options the code reads: the size ceiling and create_backup.
OptionChoices ==
    {[max_file_size |-> 1, create_backup |-> FALSE],
     [max_file_size |-> 2, create_backup |-> TRUE]}

BatchVariants == {"process_directory", "process_directory_with_progress"}

\* The sets of at most n files.
FileSets(n) == {S \in SUBSET BatchFiles : Cardinality(S) <= n}

NoRun == Run("none", FALSE, <<>>)
NewCounts == [processed |-> 0, errors |-> 0]

\* A file as a call leaves it for the next: its output exists once written.
FileAfter(b, run) == [b EXCEPT !.outExists = @ \/ run.written]

\* What a call did and returned: how many of its files process_single_file
\* returned Ok and Err for, and the stats returned (none for an Err).
CallRecord(files, runs, stats) ==
    [ok |-> Cardinality({b \in files : runs[b].res = "Ok"}),
     failed |-> Cardinality({b \in files : runs[b].res # "Ok"}),
     stats |-> stats]

\* Counters that every call starts from zero.
CountersReset(c) == NewCounts

\* The counters at the start of a call: the fields made by new(); neither
\* method stores to them before its workers start.
CountersAtCall(c) == c

\* No batch run.
BatchIdle ==
    /\ bpc = "idle"
    /\ bvariant = "none"
    /\ boptions = [max_file_size |-> 0, create_backup |-> FALSE]
    /\ bfiles = {}
    /\ bstage = <<>>
    /\ bruns = <<>>
    /\ counts = NewCounts
    /\ bprogress = 0
    /\ bstats = None
    /\ bcalls = <<>>

(***************************************************************************)
(* Path normalisation (preprocessor/path.rs).  Here a symbol is one        *)
(* character.                                                              *)
(***************************************************************************)
PathChars == {"c", "C", "s", ":", "/", "\\", " "}

\* str::replace('/', "\\")
ReplaceSlashes(s) == [i \in 1..Len(s) |-> IF s[i] = "/" THEN "\\" ELSE s[i]]

RECURSIVE TrimEndMatches(_, _)
\* str::trim_end_matches(c)
TrimEndMatches(s, c) ==
    IF s # <<>> /\ s[Len(s)] = c
    THEN TrimEndMatches(SubSeq(s, 1, Len(s) - 1), c)
    ELSE s

\* char::to_ascii_uppercase
ToAsciiUppercase(ch) == IF ch = "c" THEN "C" ELSE IF ch = "s" THEN "S" ELSE ch

\* A normalisation that keeps the trailing separators of a drive path.
NormalizePathKeepTrailing(path) ==
    LET p == Trim(path) IN
    IF Len(p) >= 2 /\ p[1] = "\\" /\ p[2] = "\\" THEN ReplaceSlashes(p)
    ELSE IF Len(p) >= 2 /\ p[2] = ":"
    THEN LET normalized == ReplaceSlashes(p)
         IN  [normalized EXCEPT ![1] = ToAsciiUppercase(normalized[1])]
    ELSE p

\* normalize_path: the string of its Ok(..); it has no Err return.
NormalizePath(path) ==
    LET p == Trim(path) IN
    IF Len(p) >= 2 /\ p[1] = "\\" /\ p[2] = "\\" THEN ReplaceSlashes(p)
    ELSE IF Len(p) >= 2 /\ p[2] = ":"
    THEN LET normalized == TrimEndMatches(ReplaceSlashes(p), "\\")
         IN  IF Len(normalized) >= 1
             THEN [normalized EXCEPT ![1] = ToAsciiUppercase(normalized[1])]
             ELSE normalized
    ELSE p

RECURSIVE StringsUpTo(_)
\* The strings over PathChars of length at most n.
StringsUpTo(n) ==
    IF n = 0 THEN {<<>>}
    ELSE LET shorter == StringsUpTo(n - 1)
         IN  shorter \cup {Append(s, ch) : s \in shorter, ch \in PathChars}

\* No call of normalize_path.
PathIdle ==
    /\ ppc = "idle"
    /\ pin = <<>>
    /\ pout = <<>>
    /\ pagain = <<>>

\* No round trip.
CodecIdle ==
    /\ cpc = "idle"
    /\ cin = VNull
    /\ corder = <<>>
    /\ cxml = <<>>
    /\ cout = [err |-> FALSE, val |-> VNull]

\* No merge run: the state of the merge variables in a round trip.
MergeIdle ==
    /\ mpc = "idle"
    /\ variant = "none"
    /\ outExt = None
    /\ merger = NewMerger
    /\ progress = 0
    /\ merged = None
    /\ result = None
    /\ written = None
    /\ oracle = None
    /\ hist = NewHist

InitCodec ==
    /\ cpc = "input"
    /\ cin \in Inputs
    /\ corder \in Orders
    /\ cxml = <<>>
    /\ cout = NoResult
    /\ MergeIdle
    /\ PathIdle
    /\ ConvIdle
    /\ BatchIdle

\* value_to_xml(&value), and the reader's tokenisation of the text
CWrite ==
    /\ cpc = "input"
    /\ cxml' = ValueToXml(corder, cin)
    /\ cpc' = "written"
    /\ UNCHANGED <<cin, corder, cout, mergeVars, pathVars, convVars, batchVars>>

\* xml_to_value(&xml)
CRead ==
    /\ cpc = "written"
    /\ cout' = XmlToValue(cxml)
    /\ cpc' = "read"
    /\ UNCHANGED <<cin, corder, cxml, mergeVars, pathVars, convVars, batchVars>>

NextCodec == CWrite \/ CRead

InitMerge ==
    /\ mpc = "walk"
    /\ variant \in Variants
    /\ outExt \in OutExts
    /\ merger = NewMerger
    /\ progress = 0
    /\ merged = None
    /\ result = None
    /\ written = None
    /\ oracle = None
    /\ hist = NewHist
    /\ CodecIdle
    /\ PathIdle
    /\ ConvIdle
    /\ BatchIdle

\* The walk yields entry f and the loop body runs on it.
WalkEntry(f) ==
    /\ mpc = "walk"
    /\ Len(hist.entries) < MaxFiles
    /\ \E p \in LoopBody(merger, f) :
          LET i == Len(hist.entries) + 1
              err == p.out.err
          IN  /\ merger' = p.out.merger
              /\ progress' = IF HookInvoked(variant, err, p.skipped)
                             THEN Increment(progress) ELSE progress
              /\ result' = err
              /\ mpc' = AfterPass(err)
              /\ hist' = [hist EXCEPT
                     !.entries = Append(@, f),
                     !.reads = @ + p.reads,
                     !.accepted = IF p.out.accepted THEN @ \cup {i} ELSE @,
                     !.contributed = IF Contributed(merger, p.out.merger)
                                     THEN @ \cup {i} ELSE @,
                     !.failedAt = IF err # None THEN Some(i) ELSE @,
                     !.versions = Append(@, p.out.merger.schema_version),
                     !.built = @ \cup p.out.built]
    /\ UNCHANGED <<variant, outExt, merged, written, oracle, codecVars, pathVars, convVars, batchVars>>

\* The walk is over: the directory has no further entry.
WalkEnd ==
    /\ mpc = "walk"
    /\ mpc' = "build"
    /\ UNCHANGED <<variant, outExt, merger, progress, merged, result, written,
                   oracle, hist, codecVars, pathVars, convVars, batchVars>>

\* build_merged_config: the merged document is synthesised, serialised to
\* markup and put to the collaborator, whose verdict is v.
Build(v) ==
    /\ mpc = "build"
    /\ oracle' = Some(v)
    /\ LET gate == BuildGate(v) IN
          /\ result' = gate
          /\ merged' = IF gate = None THEN Some(MergedValue(merger)) ELSE None
          /\ mpc' = IF gate = None THEN "write" ELSE "done"
          /\ hist' = [hist EXCEPT !.mergedAccepted = (gate = None)]
    /\ UNCHANGED <<variant, outExt, merger, progress, written, codecVars, pathVars, convVars, batchVars>>

\* What the match on the output extension returns, and whether it writes.
\* merge_configs puts the markup to the collaborator once more before it
\* writes; merge_configs_with_progress does not.  ioOk: fs::write succeeds.
WriteOutcome(var, ext, verdict, ioOk) ==
    IF ext = Some("json")
    THEN IF ioOk THEN [res |-> "Ok", form |-> Some("json")]
         ELSE [res |-> "Io", form |-> None]
    ELSE IF ext = Some("xml")
    THEN IF var = "merge_configs" /\ ~verdict.parse
         THEN [res |-> "ParserError", form |-> None]
         ELSE IF var = "merge_configs" /\ ~verdict.valid
         THEN [res |-> "ValidationError", form |-> None]
         ELSE IF ioOk THEN [res |-> "Ok", form |-> Some("xml")]
         ELSE [res |-> "Io", form |-> None]
    ELSE [res |-> "InvalidFile", form |-> None]

\* The match on the output extension, after the merged document is built.
WriteOutput(ioOk) ==
    /\ mpc = "write"
    /\ LET w == WriteOutcome(variant, outExt, oracle[1], ioOk) IN
          /\ result' = Some(w.res)
          /\ \E ord \in MergeOrders :
                written' = IF w.form # None
                           THEN Some([form |-> w.form[1], value |-> merged[1],
                                      markup |-> IF w.form[1] = "xml"
                                                 THEN MergedMarkup(ord, merged[1])
                                                 ELSE <<>>])
                           ELSE None
    /\ mpc' = "done"
    /\ UNCHANGED <<variant, outExt, merger, progress, merged, oracle, hist, codecVars, pathVars, convVars, batchVars>>

NextMerge ==
    \/ \E f \in Entries : WalkEntry(f)
    \/ WalkEnd
    \/ \E v \in Verdicts : Build(v)
    \/ \E ioOk \in BOOLEAN : WriteOutput(ioOk)

InitPath ==
    /\ ppc = "input"
    /\ pin \in StringsUpTo(MaxPathLen)
    /\ pout = <<>>
    /\ pagain = <<>>
    /\ CodecIdle
    /\ MergeIdle
    /\ ConvIdle
    /\ BatchIdle

\* normalize_path(&pin)
Normalize ==
    /\ ppc = "input"
    /\ pout' = NormalizePath(pin)
    /\ ppc' = "done"
    /\ UNCHANGED <<pin, pagain, codecVars, mergeVars, convVars, batchVars>>

\* normalize_path(&pout): the result is normalised once more.
Renormalize ==
    /\ ppc = "done"
    /\ pagain' = NormalizePath(pout)
    /\ ppc' = "again"
    /\ UNCHANGED <<pin, pout, codecVars, mergeVars, convVars, batchVars>>

NextPath == Normalize \/ Renormalize

\* A call of convert_file, or a call of convert_folder.
InitConv ==
    /\ \/ dpc = "call" /\ ddir = "none" /\ dout \in {None, Some("json"), Some("xml")}
       \/ dpc = "open" /\ ddir \in DirStates /\ dout = None
    /\ dlog = <<>>
    /\ dresult = None
    /\ dmsg = <<>>
    /\ CodecIdle
    /\ MergeIdle
    /\ PathIdle
    /\ BatchIdle

\* convert_file(f, output)
ConvertFileCall(f) ==
    /\ dpc = "call"
    /\ f.kind = "file"
    /\ LET run == ConvertFile(f, dout) IN
          /\ dlog' = Append(dlog, [file |-> f, run |-> run])
          /\ dresult' = Some(run.res)
    /\ dpc' = "done"
    /\ UNCHANGED <<ddir, dout, dmsg, codecVars, mergeVars, pathVars, batchVars>>

\* convert_folder up to its loop: is_dir, create_dir_all, read_dir.
FolderOpen ==
    /\ dpc = "open"
    /\ dpc' = IF ddir = "ok" THEN "walk" ELSE "done"
    /\ dresult' = CASE ddir = "ok" -> None
                     [] ddir = "notdir" -> Some("InvalidFile")
                     [] OTHER -> Some("Io")
    /\ UNCHANGED <<ddir, dout, dlog, dmsg, codecVars, mergeVars, pathVars, batchVars>>

\* The loop body on the next entry f: passed over, or converted, and the
\* error of a failed conversion pushed to conversion_errors.
FolderEntry(f) ==
    /\ dpc = "walk"
    /\ Len(dlog) < MaxFiles
    /\ LET run == IF Converts(f) THEN ConvertFile(f, NewExt(f))
                  ELSE Run("Skipped", FALSE, <<>>)
       IN  /\ dlog' = Append(dlog, [file |-> f, run |-> run])
           /\ dmsg' = CollectError(dmsg, f, run)
    /\ UNCHANGED <<dpc, ddir, dout, dresult, codecVars, mergeVars, pathVars, batchVars>>

\* let entry = entry?: the directory iterator yields an error.
FolderEntryError ==
    /\ dpc = "walk"
    /\ dpc' = "done"
    /\ dresult' = Some("Io")
    /\ UNCHANGED <<ddir, dout, dlog, dmsg, codecVars, mergeVars, pathVars, batchVars>>

\* The directory has no further entry: the collected errors are returned.
FolderEnd ==
    /\ dpc = "walk"
    /\ dpc' = "done"
    /\ dresult' = IF dmsg # <<>> THEN Some("BatchConversionError") ELSE Some("Ok")
    /\ UNCHANGED <<ddir, dout, dlog, dmsg, codecVars, mergeVars, pathVars, batchVars>>

NextConv ==
    \/ \E f \in ConvFiles : ConvertFileCall(f)
    \/ FolderOpen
    \/ \E f \in ConvFiles : FolderEntry(f)
    \/ FolderEntryError
    \/ FolderEnd

\* A fresh BatchProcessor and a fresh ProgressReporter; the walk has
\* collected the files.  bpc = "open": create_dir_all is still to run.
InitBatch ==
    /\ bpc = "open"
    /\ bvariant \in BatchVariants
    /\ boptions \in OptionChoices
    /\ bfiles \in FileSets(MaxBatch)
    /\ bstage = [b \in bfiles |-> "todo"]
    /\ bruns = [b \in bfiles |-> NoRun]
    /\ counts = NewCounts
    /\ bprogress = 0
    /\ bstats = None
    /\ bcalls = <<>>
    /\ CodecIdle
    /\ MergeIdle
    /\ PathIdle
    /\ ConvIdle

\* std::fs::create_dir_all(output_dir)?
BatchOpen(dirOk) ==
    /\ bpc = "open"
    /\ bpc' = IF dirOk THEN "run" ELSE "done"
    /\ bstats' = IF dirOk THEN None ELSE Some([err |-> "Io"])
    /\ bcalls' = IF dirOk THEN bcalls ELSE Append(bcalls, CallRecord({}, bruns, None))
    /\ UNCHANGED <<bvariant, boptions, bfiles, bstage, bruns, counts, bprogress,
                   codecVars, mergeVars, pathVars, convVars>>

\* A worker runs process_single_file on file b.
Work(b) ==
    /\ bpc = "run"
    /\ b \in bfiles
    /\ bstage[b] = "todo"
    /\ bruns' = [bruns EXCEPT ![b] = ProcessSingleFile(b, boptions)]
    /\ bstage' = [bstage EXCEPT ![b] = "ran"]
    /\ UNCHANGED <<bpc, bvariant, boptions, bfiles, counts, bprogress, bstats, bcalls,
                   codecVars, mergeVars, pathVars, convVars>>

\* The worker's fetch_add on the counter its result selects.
Count(b) ==
    /\ bpc = "run"
    /\ b \in bfiles
    /\ bstage[b] = "ran"
    /\ counts' = AfterFetchAdd(counts, bruns[b])
    /\ bstage' = [bstage EXCEPT ![b] =
                     IF bvariant = "process_directory_with_progress"
                     THEN "counted" ELSE "done"]
    /\ UNCHANGED <<bpc, bvariant, boptions, bfiles, bruns, bprogress, bstats, bcalls,
                   codecVars, mergeVars, pathVars, convVars>>

\* The worker's progress.increment(), in the progress variant.
Report(b) ==
    /\ bpc = "run"
    /\ b \in bfiles
    /\ bstage[b] = "counted"
    /\ bprogress' = Increment(bprogress)
    /\ bstage' = [bstage EXCEPT ![b] = "done"]
    /\ UNCHANGED <<bpc, bvariant, boptions, bfiles, bruns, counts, bstats, bcalls,
                   codecVars, mergeVars, pathVars, convVars>>

\* for_each has returned: every worker is done, the counters are loaded.
Finish ==
    /\ bpc = "run"
    /\ \A b \in bfiles : bstage[b] = "done"
    /\ bstats' = Some(counts)
    /\ bcalls' = Append(bcalls, CallRecord(bfiles, bruns, Some(counts)))
    /\ bpc' = "done"
    /\ UNCHANGED <<bvariant, boptions, bfiles, bstage, bruns, counts, bprogress,
                   codecVars, mergeVars, pathVars, convVars>>

\* The caller calls one of the two methods again on the same instance and
\* the same directory, with a reporter of its own: the files are as the
\* call before left them, the outputs it wrote now exist.
CallAgain(var) ==
    /\ bpc = "done"
    /\ Len(bcalls) < MaxCalls
    /\ bpc' = "open"
    /\ bvariant' = var
    /\ bfiles' = {FileAfter(b, bruns[b]) : b \in bfiles}
    /\ bstage' = [b \in bfiles' |-> "todo"]
    /\ bruns' = [b \in bfiles' |-> NoRun]
    /\ counts' = CountersAtCall(counts)
    /\ bprogress' = 0
    /\ bstats' = None
    /\ UNCHANGED <<boptions, bcalls, codecVars, mergeVars, pathVars, convVars>>

NextBatch ==
    \/ \E var \in BatchVariants : CallAgain(var)
    \/ \E dirOk \in BOOLEAN : BatchOpen(dirOk)
    \/ \E b \in BatchFiles : Work(b)
    \/ \E b \in BatchFiles : Count(b)
    \/ \E b \in BatchFiles : Report(b)
    \/ Finish

Init == InitCodec \/ InitMerge \/ InitPath \/ InitConv \/ InitBatch
Next == NextCodec \/ NextMerge \/ NextPath \/ NextConv \/ NextBatch
Spec == Init /\ [][Next]_vars

(***************************************************************************)
(* Claims                                                                  *)
(***************************************************************************)
RECURSIVE NonLossy(_)
\* The trees both text forms can hold: objects whose attributes are
\* strings that need no escaping, whose text is trimmed and not empty,
\* and whose children are such objects under distinct tags.
NonLossy(v) ==
    /\ IsObject(v)
    /\ \A k \in DOMAIN v.map :
          IF StartsWith(k, "@")
          THEN IsString(v.map[k]) /\ Escape(v.map[k].str) = v.map[k].str
          ELSE IF k = TextKey
          THEN /\ IsString(v.map[k])
               /\ v.map[k].str # <<>>
               /\ Trim(v.map[k].str) = v.map[k].str
               /\ Escape(v.map[k].str) = v.map[k].str
          ELSE ~StartsWith(k, "$") /\ NonLossy(v.map[k])

\* C1: for every Value tree of the non-lossy subset, reading back the
\* markup written for it yields, under the root element's name, an object
\* equal to the tree.
C1_RoundTrip ==
    (cpc = "read" /\ NonLossy(cin)) =>
        cout = [err |-> FALSE, val |-> VObject(Put(EmptyMap, RootName, cin))]

\* C2: merging a single-rule document with Image A.exe and then one with
\* Image B.exe (markup or structured, in any mix) yields exactly one
\* RuleGroup, named MergedRules with groupRelation "or", whose
\* ProcessCreate Image list is the A.exe condition followed by the B.exe one.
C2_MergeTwo ==
    (/\ merged # None
     /\ Len(hist.entries) = 2
     /\ hist.entries[1] \in {XA, JA}
     /\ hist.entries[2] \in {XB, JB}) =>
        LET root == merged[1].map IN
        /\ NEventFiltering \in DOMAIN root
        /\ IsObject(root[NEventFiltering])
        /\ DOMAIN root[NEventFiltering].map = {NRuleGroup}
        /\ LET rg == root[NEventFiltering].map[NRuleGroup] IN
           /\ IsObject(rg)
           /\ DOMAIN rg.map = {<<"@", "name">>, <<"@", "groupRelation">>, NProcessCreate}
           /\ rg.map[<<"@", "name">>] = VString(<<"MergedRules">>)
           /\ rg.map[<<"@", "groupRelation">>] = VString(<<"or">>)
           /\ IsObject(rg.map[NProcessCreate])
           /\ NImage \in DOMAIN rg.map[NProcessCreate].map
           /\ rg.map[NProcessCreate].map[NImage] = VArray(<<Cond(PathA), Cond(PathB)>>)

C2_Witness ==
    /\ merged # None
    /\ hist.entries = <<XA, JB>>

\* C3: every document that contributed rule groups or the schema version
\* was accepted by the collaborator (parse and validate) first, and the
\* merged document was accepted before any output was written.
C3_ValidatorGate ==
    /\ hist.contributed \subseteq hist.accepted
    /\ written # None => hist.mergedAccepted

\* C4: when the collaborator rejects the merged document in
\* build_merged_config, the run returns a validation error and the output
\* path is not written, whatever the output form.
C4_RejectedMergeWritesNothing ==
    (oracle # None /\ ~(oracle[1].parse /\ oracle[1].valid)) =>
        /\ result = Some("ValidationError")
        /\ written = None
        /\ mpc = "done"

C4_Witness ==
    /\ oracle # None
    /\ oracle[1].parse
    /\ ~oracle[1].valid
    /\ outExt = Some("json")
    /\ hist.entries = <<XA, XB>>
    /\ result = Some("ValidationError")

\* C5: with an output extension that is neither json nor xml, the run is
\* rejected before any document is read, parsed, validated or ingested,
\* before consolidation and before any progress increment.
C5_RejectedUpFront ==
    (mpc # "idle" /\ outExt \notin {Some("json"), Some("xml")}) =>
        /\ hist.reads = 0
        /\ hist.accepted = {}
        /\ merger.processed_files_count = 0
        /\ merger.current_rules = <<>>
        /\ oracle = None
        /\ progress = 0

RECURSIVE FirstCarried(_, _)
\* The version of the first of the entries that carries one, else "4.30".
FirstCarried(entries, i) ==
    IF i > Len(entries) THEN <<"4.30">>
    ELSE IF entries[i].ver # None THEN entries[i].ver[1]
    ELSE FirstCarried(entries, i + 1)

\* C6: once the schema version is captured no later ingestion changes it,
\* and the merged root's @schemaversion is the version of the first
\* ingested document that carries one, or "4.30" when none does.
C6_FirstSeenWins ==
    /\ \A i, j \in 1..Len(hist.versions) :
          (i <= j /\ hist.versions[i] # None) => hist.versions[j] = hist.versions[i]
    /\ merged # None =>
          /\ <<"@", "schemaversion">> \in DOMAIN merged[1].map
          /\ merged[1].map[<<"@", "schemaversion">>]
                = VString(FirstCarried(hist.entries, 1))

C6_Witness ==
    /\ merged # None
    /\ Len(hist.entries) = 2
    /\ hist.entries[1].ver = Some(V430)
    /\ hist.entries[2].ver = Some(V450)
    /\ hist.entries[2].ext = Some("xml")

\* C7: when no ingested document has a process-creation rule (none
\* ingested, or only other event types), the merged document is a root
\* with @schemaversion and no EventFiltering child.
C7_NoMatchingRules ==
    (merged # None /\ \A i \in 1..Len(hist.entries) : ~hist.entries[i].pc) =>
        /\ <<"@", "schemaversion">> \in DOMAIN merged[1].map
        /\ NEventFiltering \notin DOMAIN merged[1].map

RECURSIVE AttrsRecovered(_, _)
\* r, read for the element written for v, holds v's string attributes, and
\* so does, at every depth, what was read for each child element.
AttrsRecovered(v, r) ==
    \A k \in DOMAIN v.map :
       IF StartsWith(k, "@")
       THEN IsString(v.map[k]) =>
               (IsObject(r) /\ k \in DOMAIN r.map /\ r.map[k] = v.map[k])
       ELSE (~StartsWith(k, "$") /\ IsObject(v.map[k])) =>
               AttrsRecovered(v.map[k],
                              IF IsObject(r) /\ k \in DOMAIN r.map
                              THEN r.map[k] ELSE VNull)

\* C8: every object of the tree, at any depth, that has "@k": String(s)
\* gets "@k": String(s) back in the object read for its element.
C8_AttributeRoundTrip ==
    (cpc = "read" /\ NonLossy(cin)) =>
        /\ ~cout.err
        /\ IsObject(cout.val)
        /\ RootName \in DOMAIN cout.val.map
        /\ AttrsRecovered(cin, cout.val.map[RootName])

RECURSIVE TextClean(_)
\* No "$text" entry of v, at any depth, is empty, blank or untrimmed.
TextClean(v) ==
    CASE v.tag = "Object" ->
            \A k \in DOMAIN v.map :
               /\ k = TextKey =>
                     /\ IsString(v.map[k])
                     /\ Trim(v.map[k].str) # <<>>
                     /\ Trim(v.map[k].str) = v.map[k].str
               /\ TextClean(v.map[k])
      [] v.tag = "Array" -> \A i \in 1..Len(v.items) : TextClean(v.items[i])
      [] OTHER -> TRUE

\* C9: no tree produced by xml_to_value and no object built by
\* process_xml_file has a "$text" entry that is empty, whitespace-only
\* or different from its trimmed form.
C9_NoBlankText ==
    /\ (cpc = "read" /\ ~cout.err) => TextClean(cout.val)
    /\ \A v \in hist.built : TextClean(v)

C9_Witness ==
    /\ cpc = "read"
    /\ cin = VObject(Put(EmptyMap, TextKey, VString(<<" ", "t", " ">>)))
    /\ cout.val = VObject(Put(EmptyMap, RootName,
                      VObject(Put(EmptyMap, TextKey, VString(<<"t">>)))))

\* Whether the walk ingests entry f (a file with a markup or structured
\* extension) rather than passing over it.
Ingestible(f) == f.kind = "file" /\ f.ext \in {Some("xml"), Some("XML"), Some("json")}

\* The error the defect of entry f raises.
DefectOf(f) ==
    IF ~f.readable THEN "Io"
    ELSE IF f.ext = Some("json")
    THEN IF ~f.jsonOk THEN "JsonParse" ELSE "InvalidFile"
    ELSE IF ~f.parseOk THEN "ParserError" ELSE "ValidationError"

\* C10: once a document fails, no later entry is walked or ingested,
\* consolidation is not run, nothing is written, and the run's result is
\* that document's error.
C10_FailFast ==
    hist.failedAt # None =>
        LET n == hist.failedAt[1] IN
        /\ mpc = "done"
        /\ Len(hist.entries) = n
        /\ merger.processed_files_count
              = Cardinality({j \in 1..(n - 1) : Ingestible(hist.entries[j])})
        /\ oracle = None
        /\ merged = None
        /\ written = None
        /\ result = Some(DefectOf(hist.entries[n]))

C10_Witness ==
    /\ hist.failedAt = Some(2)
    /\ hist.entries = <<XA, XBadValid>>
    /\ variant = "merge_configs_with_progress"
    /\ merger.processed_files_count = 1

\* C11: a merge_configs run that stops at a markup document the
\* collaborator rejects, at its parse step or at its validate step, returns
\* ConversionError::ValidationError.
C11_RejectedIsValidationError ==
    (/\ variant = "merge_configs"
     /\ hist.failedAt # None
     /\ LET f == hist.entries[hist.failedAt[1]] IN
           /\ f.kind = "file"
           /\ f.ext \in {Some("xml"), Some("XML")}
           /\ f.readable
           /\ ~(f.parseOk /\ f.validOk)) =>
        result = Some("ValidationError")

\* C16: in merge_configs_with_progress the progress count equals the
\* merger's processed_files_count after every step, which is the number of
\* walked documents that were ingested: a failed ingestion and a skipped
\* entry add nothing.
C16_HookPerIngested ==
    variant = "merge_configs_with_progress" =>
        /\ progress = merger.processed_files_count
        /\ progress = Cardinality({i \in 1..Len(hist.entries) :
                          Ingestible(hist.entries[i]) /\ hist.failedAt # Some(i)})

C16_Witness ==
    /\ variant = "merge_configs_with_progress"
    /\ hist.entries = <<JA, JNotObject>>
    /\ hist.failedAt = Some(2)
    /\ progress = 1

RECURSIVE ChildrenRead(_, _)
\* r, read for the element written for v, is an object with one key for
\* every child of v, whose value was read in the same way for that child.
ChildrenRead(v, r) ==
    /\ IsObject(r)
    /\ \A k \in DOMAIN v.map :
          (~StartsWith(k, "@") /\ ~StartsWith(k, "$")) =>
              /\ k \in DOMAIN r.map
              /\ ChildrenRead(v.map[k], r.map[k])

\* C18: for a well-formed element with children of pairwise distinct tags,
\* at any depth, the object read for it has one key for every child, whose
\* value is the object read for that child: the reader does not stop at
\* the close tag of a child or descendant.
C18_InteriorToOwnClose ==
    (cpc = "read" /\ NonLossy(cin)) =>
        /\ ~cout.err
        /\ IsObject(cout.val)
        /\ RootName \in DOMAIN cout.val.map
        /\ ChildrenRead(cin, cout.val.map[RootName])

\* C19: the merged RuleGroup has no keys other than @name, @groupRelation
\* and at most one ProcessCreate; the ProcessCreate block has @onmatch =
\* "include" and Image as its only other key, whatever was collected.
C19_OnlyProcessCreate ==
    (merged # None /\ NEventFiltering \in DOMAIN merged[1].map) =>
        LET ef == merged[1].map[NEventFiltering] IN
        /\ IsObject(ef)
        /\ NRuleGroup \in DOMAIN ef.map
        /\ LET rg == ef.map[NRuleGroup] IN
           /\ IsObject(rg)
           /\ {<<"@", "name">>, <<"@", "groupRelation">>} \subseteq DOMAIN rg.map
           /\ DOMAIN rg.map \subseteq
                 {<<"@", "name">>, <<"@", "groupRelation">>, <<"ProcessCreate">>}
           /\ <<"ProcessCreate">> \in DOMAIN rg.map =>
                 LET pc == rg.map[<<"ProcessCreate">>] IN
                 /\ IsObject(pc)
                 /\ DOMAIN pc.map = {<<"@", "onmatch">>, <<"Image">>}
                 /\ pc.map[<<"@", "onmatch">>] = VString(<<"include">>)

C19_Witness ==
    /\ merged # None
    /\ hist.entries = <<XExclude, JNet>>
    /\ <<"ProcessCreate">> \in
          DOMAIN merged[1].map[NEventFiltering].map[NRuleGroup].map

RECURSIVE ExpectedImages(_, _)
\* The image-path conditions of the rule records from the i-th on: a
\* record's Image entry counts for one element, a list for its elements.
ExpectedImages(rules, i) ==
    IF i > Len(rules) THEN <<>>
    ELSE LET r == rules[i]
             pc == r.map[<<"ProcessCreate">>]
             has == /\ IsObject(r)
                    /\ <<"ProcessCreate">> \in DOMAIN r.map
                    /\ IsObject(pc)
                    /\ <<"Image">> \in DOMAIN pc.map
         IN  (IF ~has THEN <<>>
              ELSE IF IsArray(pc.map[<<"Image">>]) THEN pc.map[<<"Image">>].items
              ELSE <<pc.map[<<"Image">>]>>)
             \o ExpectedImages(rules, i + 1)

\* C20: the merged Image list holds, in collection order, the image-path
\* conditions of every collected record with a ProcessCreate entry; the
\* conditions of a record whose Image entry is a list are elements of the
\* merged list, which holds single conditions and no nested list.
C20_Concatenates ==
    (/\ merged # None
     /\ NEventFiltering \in DOMAIN merged[1].map
     /\ <<"ProcessCreate">> \in
           DOMAIN merged[1].map[NEventFiltering].map[NRuleGroup].map) =>
        LET image == merged[1].map[NEventFiltering].map[NRuleGroup]
                        .map[<<"ProcessCreate">>].map[<<"Image">>]
        IN  /\ IsArray(image)
            /\ \A i \in 1..Len(image.items) : ~IsArray(image.items[i])
            /\ image.items = ExpectedImages(merger.current_rules, 1)

\* The shapes of the claim: a drive letter and a colon; two backslashes.
IsDrivePath(s) == Len(s) >= 2 /\ s[1] \in {"c", "C", "s"} /\ s[2] = ":"
IsUncPath(s) == Len(s) >= 2 /\ s[1] = "\\" /\ s[2] = "\\"

Precedes(steps, a, b) ==
    \E i \in 1..Len(steps) :
       /\ steps[i] = a
       /\ \A j \in 1..Len(steps) : steps[j] = b => i < j

\* C12: in every run of convert_file, for either direction, a transcoder
\* that ran did so after the collaborator's parse and validate both
\* accepted the input; a rejected input gives an error and no output; the
\* output is written only when both accepted.
C12_GateBeforeTranscode ==
    \A i \in 1..Len(dlog) :
       LET f == dlog[i].file
           run == dlog[i].run
       IN  run.res # "Skipped" =>
              /\ "transcode" \in {run.steps[j] : j \in 1..Len(run.steps)} =>
                    /\ f.parseOk /\ f.validOk
                    /\ Precedes(run.steps, "parse", "validate")
                    /\ Precedes(run.steps, "validate", "transcode")
              /\ ~(f.parseOk /\ f.validOk) => (run.res # "Ok" /\ ~run.written)
              /\ run.written =>
                    /\ f.parseOk /\ f.validOk
                    /\ run.res = "Ok"
                    /\ Precedes(run.steps, "validate", "write")

C12_Witness ==
    /\ dpc = "done"
    /\ dout = Some("json")
    /\ Len(dlog) = 1
    /\ dlog[1].file = GoodXml
    /\ dlog[1].run.written

\* The failed attempts of the log, as [path, err], in order.
FailedOf(log) ==
    LET failed == {i \in 1..Len(log) : log[i].run.res \notin {"Ok", "Skipped"}}
        nth(k) == CHOOSE i \in failed : Cardinality({j \in failed : j < i}) = k - 1
    IN  [k \in 1..Cardinality(failed) |->
            [path |-> log[nth(k)].file.name, err |-> log[nth(k)].run.res]]

\* C13: in a convert_folder run whose directory could be opened and listed,
\* every file with a markup or structured extension has one conversion
\* attempt whatever happened to earlier files, and no other entry has one;
\* the run returns Ok iff every attempt succeeded, else one
\* BatchConversionError whose message has, for each failed file and no
\* other, its path and its error.
C13_CollectsAllErrors ==
    /\ (dpc = "walk" \/ (dpc = "done" /\ ddir = "ok")) =>
          /\ \A i \in 1..Len(dlog) :
                (dlog[i].run.res # "Skipped") <=>
                   (/\ dlog[i].file.kind = "file"
                    /\ dlog[i].file.ext \in {Some("xml"), Some("XML"), Some("json")})
          /\ dmsg = FailedOf(dlog)
    /\ (dpc = "done" /\ ddir = "ok" /\ dresult # Some("Io")) =>
          /\ dresult = Some("Ok") <=>
                (\A i \in 1..Len(dlog) : dlog[i].run.res \in {"Ok", "Skipped"})
          /\ dresult # Some("Ok") => dresult = Some("BatchConversionError")

C13_Witness ==
    /\ dpc = "done"
    /\ dresult = Some("BatchConversionError")
    /\ Len(dlog) = 2
    /\ dlog[1].file = BadValid
    /\ dlog[2].file = JsonText
    /\ Len(dmsg) = 2

RECURSIVE Tally(_, _)
\* What the first k calls on the instance did, added up.
Tally(calls, k) ==
    IF k = 0 THEN NewCounts
    ELSE LET t == Tally(calls, k - 1)
         IN  [processed |-> t.processed + calls[k].ok,
              errors |-> t.errors + calls[k].failed]

\* What the calls before the current one did.
BaseCounts == Tally(bcalls, IF bpc = "done" THEN Len(bcalls) - 1 ELSE Len(bcalls))

\* The files whose worker has done its fetch_add.
Counted == {b \in bfiles : bstage[b] \in {"counted", "done"}}

\* What holds of a batch run in every state: each counted file has moved
\* one counter by one, and at the end of the first call on an instance the
\* two counters sum to the number of files and the reporter, when there is
\* one, agrees.
BatchCountsInv ==
    bpc \in {"run", "done"} =>
        /\ counts.processed =
              BaseCounts.processed + Cardinality({b \in Counted : bruns[b].res = "Ok"})
        /\ counts.errors =
              BaseCounts.errors + Cardinality({b \in Counted : bruns[b].res # "Ok"})
        /\ (bpc = "done" /\ bstats # Some([err |-> "Io"])) =>
              /\ bstats = Some(counts)
              /\ Len(bcalls) = 1 =>
                    /\ counts.processed + counts.errors = Cardinality(bfiles)
                    /\ bprogress = IF bvariant = "process_directory_with_progress"
                                   THEN counts.processed + counts.errors ELSE 0

\* C14: under every interleaving of the workers each file causes exactly
\* one increment of exactly one counter, so that processed + errors = n
\* after the run of a new BatchProcessor; no counter ever decreases; with
\* a progress reporter its count equals processed + errors after that run.
C14_CountersPartition ==
    /\ []BatchCountsInv
    /\ [][/\ counts'.processed >= counts.processed
          /\ counts'.errors >= counts.errors]_vars

C14_Witness ==
    /\ bpc = "done"
    /\ Len(bcalls) = 1
    /\ bvariant = "process_directory_with_progress"
    /\ Cardinality(bfiles) = 2
    /\ counts = [processed |-> 1, errors |-> 1]
    /\ bprogress = 2

\* C15: a file whose size metadata() reports above options.max_file_size
\* is rejected before any read, preprocess, parse or conversion, writes no
\* output and is counted as an error and not as processed; a file of
\* exactly max_file_size bytes is not rejected by the size check.
C15_OversizedRejectedFirst ==
    \A b \in bfiles :
       bstage[b] # "todo" =>
          /\ (b.metaOk /\ b.size > boptions.max_file_size) =>
                /\ bruns[b].res = "InvalidFile"
                /\ bruns[b].steps = <<"metadata">>
                /\ ~bruns[b].written
                /\ bpc = "done" =>
                      /\ counts.errors - BaseCounts.errors >= 1
                      /\ counts.processed - BaseCounts.processed <=
                            Cardinality({c \in bfiles : ~(c.metaOk /\ c.size > boptions.max_file_size)})
          /\ b.size = boptions.max_file_size =>
                /\ bruns[b].steps # <<"metadata">>
                /\ (b = BatchFile(GoodXml, "middle.xml", 2)) => bruns[b].written

C15_Witness ==
    /\ bpc = "done"
    /\ boptions.max_file_size = 2
    /\ bfiles = {BatchFile(GoodXml, "middle.xml", 2), BatchFile(GoodXml, "large.xml", 3)}
    /\ Len(bcalls) = 1
    /\ counts = [processed |-> 1, errors |-> 1]

\* Whether the entry image holds the condition c: as itself or as an
\* element of a list.
HoldsCondition(image, c) ==
    \/ image = c
    \/ IsArray(image) /\ \E j \in 1..Len(image.items) : image.items[j] = c

\* The collected rule records that carry a ProcessCreate block with an
\* Image entry.
ImageRules ==
    {i \in 1..Len(merger.current_rules) :
        LET r == merger.current_rules[i] IN
        /\ IsObject(r)
        /\ NProcessCreate \in DOMAIN r.map
        /\ IsObject(r.map[NProcessCreate])
        /\ NImage \in DOMAIN r.map[NProcessCreate].map}

\* C21: after process_xml_file has taken a markup document whose
\* ProcessCreate block has the two Image conditions A.exe and B.exe, a
\* collected rule record holds both of them, and both are in the Image
\* list of the merged document once it is built.
C21_SiblingsAccumulated ==
    (\E i \in 1..Len(hist.entries) :
        hist.entries[i] = XImages /\ hist.failedAt # Some(i)) =>
        /\ \E i \in ImageRules :
              LET image == merger.current_rules[i].map[NProcessCreate].map[NImage]
              IN  HoldsCondition(image, Cond(PathA)) /\ HoldsCondition(image, Cond(PathB))
        /\ merged # None =>
              LET list == merged[1].map[NEventFiltering].map[NRuleGroup]
                             .map[NProcessCreate].map[NImage]
              IN  HoldsCondition(list, Cond(PathA)) /\ HoldsCondition(list, Cond(PathB))

\* The RuleGroup objects that process_xml_file builds for the markup
\* document f, taken from the root object it builds: the entry at
\* EventFiltering.RuleGroup.
GroupsBuilt(f) ==
    {v.map[NEventFiltering].map[NRuleGroup] :
        v \in {b \in UNION {o.built : o \in ProcessXmlFile(NewMerger, f)} :
                 /\ NEventFiltering \in DOMAIN b.map
                 /\ NRuleGroup \in DOMAIN b.map[NEventFiltering].map}}

\* The number of RuleGroup elements that the document opens.
GroupCount(f) ==
    Cardinality({i \in 1..Len(f.xml) :
                    f.xml[i].ev = "Start" /\ f.xml[i].name = NRuleGroup})

\* The number of EventFiltering elements that the document opens.
FilteringCount(f) ==
    Cardinality({i \in 1..Len(f.xml) :
                    f.xml[i].ev = "Start" /\ f.xml[i].name = NEventFiltering})

\* The event-type entries of a RuleGroup object: its keys that are no
\* attribute.
EventKeys(g) == {k \in DOMAIN g.map : ~StartsWith(k, "@")}

\* The rule records the claim expects of the RuleGroup object g: for each
\* event type, the attributes of g and that entry.
RecordsOf(g) ==
    {VObject([k \in {a \in DOMAIN g.map : StartsWith(a, "@")} \cup {e} |-> g.map[k]]) :
        e \in EventKeys(g)}

GroupsAt(j) ==
    IF ~(NEventFiltering \in DOMAIN j.map) THEN <<>>
    ELSE LET ef == j.map[NEventFiltering] IN
         IF ~IsObject(ef) \/ ~(NRuleGroup \in DOMAIN ef.map) THEN <<>>
         ELSE IF IsArray(ef.map[NRuleGroup]) THEN ef.map[NRuleGroup].items
         ELSE <<ef.map[NRuleGroup]>>

\* C23: a pass over a structured document appends one rule record per
\* group found at EventFiltering.RuleGroup, in array order, each equal to
\* the input group; a root object without EventFiltering.RuleGroup appends
\* nothing and still counts as a processed file; a root that is no object
\* gives an error and leaves the merger as it was.
C23_StructuredIngestion ==
    [][(/\ mpc = "walk"
        /\ Len(hist'.entries) = Len(hist.entries) + 1
        /\ LET f == hist'.entries[Len(hist'.entries)] IN
              /\ f.kind = "file"
              /\ f.ext = Some("json")
              /\ f.readable
              /\ f.jsonOk) =>
          LET f == hist'.entries[Len(hist'.entries)] IN
          IF IsObject(f.json)
          THEN /\ result' = None
               /\ merger'.current_rules = merger.current_rules \o GroupsAt(f.json)
               /\ merger'.processed_files_count = merger.processed_files_count + 1
          ELSE /\ result' = Some("InvalidFile")
               /\ merger' = merger]_vars

C23_Witness ==
    /\ hist.entries = <<JNoRules, JArray>>
    /\ hist.failedAt = None
    /\ merger.processed_files_count = 2
    /\ merger.current_rules = JArray.json.map[NEventFiltering].map[NRuleGroup].items
    /\ Len(merger.current_rules) = 2

\* The states the event loop of process_xml_file goes through on the
\* document f: the state after each prefix of its events.
LoopStates(f) ==
    LET st0 == [stack |-> <<>>, in_event_filtering |-> FALSE, rules |-> <<>>,
                ver |-> None, err |-> FALSE, built |-> {}]
    IN  UNION {XmlRun(SubSeq(f.xml, 1, i), 1, st0) : i \in 0..Len(f.xml)}

\* Whether an EventFiltering element is open: one is on the stack.
OpenFiltering(st) ==
    \E j \in 1..Len(st.stack) : st.stack[j].name = NEventFiltering

\* The names of the groups that the collected rule records come from.
GroupNames ==
    {merger.current_rules[i].map[<<"@", "name">>].str :
        i \in {j \in 1..Len(merger.current_rules) :
                 /\ IsObject(merger.current_rules[j])
                 /\ <<"@", "name">> \in DOMAIN merger.current_rules[j].map}}

\* C24: in every state of the event loop on a document the loop ran on,
\* in_event_filtering is true exactly when an EventFiltering element is
\* open; a RuleGroup with an open EventFiltering ancestor contributes its
\* rule records and a RuleGroup before or after EventFiltering does not.
C24_FlagTracksOpenFiltering ==
    (/\ hist.entries # <<>>
     /\ Len(hist.entries) \in hist.accepted
     /\ hist.failedAt = None) =>
        LET f == hist.entries[Len(hist.entries)] IN
        /\ \A st \in LoopStates(f) : st.in_event_filtering <=> OpenFiltering(st)
        /\ f = XOutside =>
              /\ <<"inside">> \in GroupNames
              /\ <<"before">> \notin GroupNames
              /\ <<"after">> \notin GroupNames
        /\ f = XNested => <<"nested">> \in GroupNames

\* The value the reader is to give for a child element written for item:
\* an object with its text, trimmed, when it has any.
ChildValue(item) ==
    IF IsString(item) THEN VObject(StoreText(EmptyMap, item.str)) ELSE item

\* C25: when the markup read has a root whose n >= 2 children share the
\* tag c (the writer's form of a list under c), xml_to_value yields a root
\* object whose entry under c is the value of the last such child: later
\* siblings overwrite earlier ones and the earlier ones are absent.
C25_LastSiblingWins ==
    (/\ cpc = "read"
     /\ IsObject(cin)
     /\ KC \in DOMAIN cin.map
     /\ IsArray(cin.map[KC])
     /\ Len(cin.map[KC].items) >= 2) =>
        LET items == cin.map[KC].items IN
        /\ ~cout.err
        /\ IsObject(cout.val)
        /\ RootName \in DOMAIN cout.val.map
        /\ IsObject(cout.val.map[RootName])
        /\ KC \in DOMAIN cout.val.map[RootName].map
        /\ cout.val.map[RootName].map[KC] = ChildValue(items[Len(items)])

\* C26: merging the structured file that XmlToJson produced from the
\* markup document b.xml captures the schema version of b.xml and gives a
\* merged document that merging b.xml itself can give.
C26_SameInBothForms ==
    (hist.entries = <<JConvB>> /\ merged # None) =>
        /\ merger.schema_version = Some(V450)
        /\ merged[1] \in {MergedValue(o.merger) : o \in ProcessXmlFile(NewMerger, XB)}

\* How deep the reader is in the markup after its first i events.
Depth(evs, i) ==
    Cardinality({j \in 1..i : evs[j].ev = "Start"})
    - Cardinality({j \in 1..i : evs[j].ev = "End"})

\* The attributes of a start tag as the set of (name, value) pairs, the
\* value as the reader unescapes it.
AttrPairs(e) ==
    {<<e.attrs[i].key, Unescape(e.attrs[i].value).str>> : i \in 1..Len(e.attrs)}

\* Whether s begins with p.
IsPrefix(p, s) == Len(p) <= Len(s) /\ SubSeq(s, 1, Len(p)) = p

\* C27: the markup written for an Object is exactly one element, named
\* "root" at the top and by its key below; the attributes of the element
\* are exactly the object's @-keys that hold a String, the prefix
\* stripped and the value unchanged; an @-key that holds anything else
\* gives no attribute and no child element; a String under $text is the
\* element's text.
C27_ObjectElement ==
    (cpc # "input" /\ IsObject(cin)) =>
        LET map == cin.map
            n == Len(cxml)
            strs == {k \in DOMAIN map : StartsWith(k, "@") /\ IsString(map[k])}
            others == {k \in DOMAIN map : StartsWith(k, "@") /\ ~IsString(map[k])}
        IN  /\ n >= 2
            /\ cxml[1].ev = "Start" /\ cxml[1].name = RootName
            /\ cxml[n] = EvEnd(RootName)
            /\ \A i \in 1..(n - 1) : Depth(cxml, i) >= 1
            /\ Depth(cxml, n) = 0
            /\ AttrPairs(cxml[1]) = {<<StripFirst(k), map[k].str>> : k \in strs}
            /\ Len(cxml[1].attrs) = Cardinality(strs)
            /\ \A k \in others :
                  \A i \in 1..n :
                     cxml[i].ev \in {"Start", "Empty"} =>
                        cxml[i].name \notin {k, StripFirst(k)}
            /\ (TextKey \in DOMAIN map /\ IsString(map[TextKey])
                  /\ map[TextKey].str # <<>>) =>
                  /\ cxml[2].ev = "Text"
                  /\ IsPrefix(map[TextKey].str, Unescape(cxml[2].raw).str)
            /\ \A k \in {x \in DOMAIN map : ~StartsWith(x, "@") /\ ~StartsWith(x, "$")
                                               /\ IsObject(map[x])} :
                  Cardinality({i \in 2..n : /\ cxml[i].ev = "Start"
                                            /\ cxml[i].name = k
                                            /\ Depth(cxml, i) = 2}) = 1

C27_Witness ==
    /\ cpc = "written"
    /\ cin = VObject(Put(EmptyMap, KAttr, VNumber(7)))
    /\ cxml = <<EvStart(RootName, <<>>), EvEnd(RootName)>>

\* The places in the markup where an element called name opens as a child
\* of an element at depth d.
ElemIdx(evs, name, d) ==
    {i \in 1..Len(evs) :
        \/ evs[i].ev = "Start" /\ evs[i].name = name /\ Depth(evs, i) = d + 1
        \/ evs[i].ev = "Empty" /\ evs[i].name = name /\ Depth(evs, i) = d}

\* Every place where an element called name opens, at any depth.
ElemAnywhere(evs, name) ==
    {i \in 1..Len(evs) : evs[i].ev \in {"Start", "Empty"} /\ evs[i].name = name}

\* The j-th of a set of places, in the order of the markup.
Nth(idx, j) == CHOOSE i \in idx : Cardinality({k \in idx : k < i}) = j - 1

\* The text of the element that opens at place i.
ElemText(evs, i) ==
    IF evs[i].ev = "Start" /\ i < Len(evs) /\ evs[i + 1].ev = "Text"
    THEN Unescape(evs[i + 1].raw).str ELSE <<>>

\* The text an item carries: a string's own, an object's "$text".
ItemText(item) ==
    IF IsString(item) THEN item.str
    ELSE IF IsObject(item) /\ TextKey \in DOMAIN item.map /\ IsString(item.map[TextKey])
         THEN item.map[TextKey].str
         ELSE <<>>

RECURSIVE Flat(_, _)
\* The items of a list from the i-th on, a list among them replaced by
\* its own items.
Flat(items, i) ==
    IF i > Len(items) THEN <<>>
    ELSE (IF IsArray(items[i]) THEN Flat(items[i].items, 1) ELSE <<items[i]>>)
         \o Flat(items, i + 1)

\* The list under c of an input of the round trip, when it is one.
CodecList == IF IsObject(cin) /\ DOMAIN cin.map = {KC} /\ IsArray(cin.map[KC])
             THEN Some(cin.map[KC].items) ELSE None

\* The Image list of the merged document written as markup, when it has one.
MergedList ==
    IF /\ written # None
       /\ written[1].form = "xml"
       /\ NEventFiltering \in DOMAIN written[1].value.map
       /\ NProcessCreate \in
             DOMAIN written[1].value.map[NEventFiltering].map[NRuleGroup].map
    THEN Some(written[1].value.map[NEventFiltering].map[NRuleGroup]
                 .map[NProcessCreate].map[NImage].items)
    ELSE None

\* What the markup evs holds for the list items written under name below
\* an element at depth d: one element per expected item, in item order,
\* and no further element of that name anywhere.
Unwrapped(evs, name, d, expected) ==
    LET idx == ElemIdx(evs, name, d) IN
    /\ Cardinality(idx) = Len(expected)
    /\ ElemAnywhere(evs, name) = idx
    /\ \A j \in 1..Len(expected) : ElemText(evs, Nth(idx, j)) = ItemText(expected[j])

\* C28 as stated: a list of n items under a key is written, by write_value
\* and by write_xml_value, as exactly n sibling elements of that name.
C28_AsStated ==
    /\ (cpc # "input" /\ CodecList # None) =>
          Cardinality(ElemIdx(cxml, KC, 1)) = Len(CodecList[1])
    /\ MergedList # None =>
          Cardinality(ElemIdx(written[1].markup, NImage, 4)) = Len(MergedList[1])

\* C28: a list under a key is written, by write_value and by the merger's
\* write_xml_value, as sibling elements of that name with no wrapper
\* around them, in item order: one element for each item that is no list,
\* and for an item that is itself a list the elements of its own items in
\* its place; so n elements for n items none of which is a list, and
\* nothing for an empty list.
C28_ArrayUnwrapped ==
    /\ (cpc # "input" /\ CodecList # None) =>
          /\ Unwrapped(cxml, KC, 1, Flat(CodecList[1], 1))
          /\ ElemIdx(cxml, KC, 1) = {i \in 2..Len(cxml) : cxml[i].ev \in {"Start", "Empty"}}
    /\ MergedList # None =>
          Unwrapped(written[1].markup, NImage, 4, Flat(MergedList[1], 1))

C28_Witness ==
    /\ cpc = "written"
    /\ CodecList = Some(<<VObject(Put(EmptyMap, TextKey, VString(<<"t">>))), VObject(EmptyMap)>>)
    /\ Cardinality(ElemIdx(cxml, KC, 1)) = 2

\* C29: the counters of a BatchProcessor are never reset: the stats that
\* the k-th call on an instance returns are the totals of the calls 1..k,
\* the files of the earlier calls included, whichever of the two methods
\* each call was.
C29_CountersCumulative ==
    \A k \in 1..Len(bcalls) :
       bcalls[k].stats # None => bcalls[k].stats[1] = Tally(bcalls, k)

C29_Witness ==
    /\ bpc = "done"
    /\ Len(bcalls) = 2
    /\ bcalls[1].stats = Some([processed |-> 1, errors |-> 1])
    /\ bcalls[2].ok = 1
    /\ bcalls[2].failed = 1
    /\ bcalls[2].stats = Some([processed |-> 2, errors |-> 2])

\* C30: normalize_path is idempotent: normalising its result once more
\* gives that result again, for every string of bounded length over the
\* letters, ':', '/', '\' and the space.
C30_Idempotent ==
    ppc = "again" => pagain = pout

====
